---- MODULE Spec2Model ----
(***************************************************************************)
(* A model of the indexing core of mcp-mycelium: the Indexer (Document     *)
(* Index), the TagEngine (Tag Index), the BacklinkEngine (Link Index) and  *)
(* the LRUEmbeddingCache.                                                  *)
(*                                                                         *)
(* A path string is modelled by the sequence of its '/'-separated          *)
(* segments ("sub/C.md" is <<"sub", "C.md">>, "/a.md" is <<"", "a.md">>,   *)
(* "./b.md" is <<".", "b.md">>), so that normalizePath and                 *)
(* resolveTargetPath are computed the way the code computes them.          *)
(* A file's content is modelled by what the parser extracts from it.       *)
(***************************************************************************)
EXTENDS Integers, Sequences, FiniteSets, TLC

VARIABLES
    files,        \* Indexer.files: relativePath -> IndexedFile
    tags,         \* TagEngine.tags: normalized tag -> TagInfo
    backlinks,    \* BacklinkEngine.backlinks: normalized path -> BacklinkInfo
    fileExists,   \* BacklinkEngine.fileExists: set of paths
    isBuilding,   \* Indexer.isBuilding
    q,            \* the last completed operation and what it returned
    cache,        \* LRUEmbeddingCache.cache: the entries in Map insertion order
    now,          \* the clock read by Date.now()
    recency,      \* history: the cached keys, least recently accessed first
    store,        \* the Content Store: relativePath -> what stat and read answer
    calls,        \* the index builds in progress, one slot per caller
    handlers,     \* the updateFile calls in progress, one slot per document
    pending,      \* the notifications not yet taken up, per document, in order
    parsedOnce,   \* history: the file has been parsed successfully since it was created
    coOccurring,  \* TagInfo.co_occurring_tags: tag -> co-occurring tag -> count
    embeddingProvider,  \* SearchEngine._embeddingProvider is set
    pageRankCache,      \* SearchEngine.pageRankCache
    pageRankCacheTime   \* SearchEngine.pageRankCacheTime

indexVars == <<files, tags, backlinks, fileExists>>

cacheVars == <<cache, now, recency>>

asyncVars == <<store, calls, handlers, pending, parsedOnce>>

tagVars == <<coOccurring>>

searchVars == <<embeddingProvider, pageRankCache, pageRankCacheTime>>

vars == <<files, tags, backlinks, fileExists, isBuilding, q, cache, now, recency,
          store, calls, handlers, pending, parsedOnce, coOccurring,
          embeddingProvider, pageRankCache, pageRankCacheTime>>

-----------------------------------------------------------------------------
(* Bounds of the model *)

MaxMtime == 2
MaxHops == 3
MaxDepth == 2
MaxCallers == 2
Capacity == 2
MaxNow == 2
MaxPending == 2
MaxCount == 2
MaxIterations == 2

-----------------------------------------------------------------------------
(* The vault: documents, link targets, tags and contents *)

DocA == <<"a.md">>
DocB == <<"b.md">>
DocC == <<"sub", "C.md">>

\* relative paths of the markdown files a vault may hold, in directory-walk order
DocList == <<DocA, DocB, DocC>>

Docs == {DocList[i] : i \in 1..Len(DocList)}

Mtimes == 1..MaxMtime

\* the callers that may have an index build in progress at the same time
Callers == 1..MaxCallers

\* String.prototype.toLowerCase on the path segments and tags of the model
Lower(s) ==
    CASE s = "C.md" -> "c.md"
      [] s = "T1" -> "t1"
      [] OTHER -> s

LowerSeq(p) == [i \in 1..Len(p) |-> Lower(p[i])]

\* LinkReference {target, text, line, type}: target and line are kept
Link(target, line) == [target |-> target, line |-> line]

\* What the parser extracts from one version of a file's content:
\* ok is FALSE when MarkdownParser.parse throws.
ContentOf(c) ==
    CASE c = "c1" -> [ok |-> TRUE, tags |-> <<"t1">>,
                      links |-> <<Link(<<"b.md">>, 1), Link(<<"sub", "C.md">>, 2)>>]
      [] c = "c2" -> [ok |-> TRUE, tags |-> <<"T1", "t2">>,
                      links |-> <<Link(<<"..", "a.md">>, 1)>>]
      [] c = "c3" -> [ok |-> TRUE, tags |-> <<>>,
                      links |-> <<Link(<<"sub", "C.md">>, 1)>>]
      [] c = "c4" -> [ok |-> TRUE, tags |-> <<>>,
                      links |-> <<Link(<<"", "b.md">>, 1)>>]
      [] OTHER -> [ok |-> FALSE, tags |-> <<>>, links |-> <<>>]

Contents == {"c1", "c2", "c3", "c4", "bad"}

-----------------------------------------------------------------------------
(* Sequence helpers *)

\* Array.prototype.filter
RECURSIVE SelectSeqBy(_, _)
SelectSeqBy(s, keep) ==
    IF s = <<>> THEN <<>>
    ELSE IF Head(s) \in keep THEN <<Head(s)>> \o SelectSeqBy(Tail(s), keep)
    ELSE SelectSeqBy(Tail(s), keep)

Range(s) == {s[i] : i \in 1..Len(s)}

\* filter((x, i, arr) => arr.indexOf(x) === i): the first occurrence of each
RECURSIVE Dedup(_)
Dedup(s) ==
    IF s = <<>> THEN <<>>
    ELSE LET init == Dedup(SubSeq(s, 1, Len(s) - 1))
             x == s[Len(s)]
         IN IF x \in Range(init) THEN init ELSE Append(init, x)

-----------------------------------------------------------------------------
(* BacklinkEngine: paths *)

NonEmptySegs(p) == SelectSeqBy(p, Range(p) \ {""})

\* normalizePath: collapse runs of '/', drop a trailing '/', lower-case.
\* A leading '/' (a first empty segment) is kept.
NormalizePath(p) ==
    LET body == LowerSeq(NonEmptySegs(p))
    IN IF body = <<>> THEN <<"">>
       ELSE IF p[1] = "" THEN <<"">> \o body
       ELSE body

\* the loop of resolveTargetPath over the parts of a './' or '../' target
RECURSIVE ApplyParts(_, _)
ApplyParts(dir, parts) ==
    IF parts = <<>> THEN dir
    ELSE LET part == Head(parts)
             next == IF part = ".."
                     THEN (IF dir = <<>> THEN dir ELSE SubSeq(dir, 1, Len(dir) - 1))
                     ELSE IF part # "." /\ part # "" THEN Append(dir, part)
                     ELSE dir
         IN ApplyParts(next, Tail(parts))

JoinOrEmpty(p) == IF p = <<>> THEN <<"">> ELSE p

ResolveTargetPath(target, currentPath) ==
    LET currentDir == SubSeq(currentPath, 1, Len(currentPath) - 1)
    IN IF Len(target) >= 2 /\ target[1] = ""
       THEN NormalizePath(target)
       ELSE IF Len(target) >= 2 /\ target[1] \in {".", ".."}
       THEN NormalizePath(JoinOrEmpty(ApplyParts(currentDir, target)))
       ELSE NormalizePath(currentDir \o target)

-----------------------------------------------------------------------------
(* BacklinkEngine: the link index.  A value bl is the backlinks map, a     *)
(* function from the normalized paths it holds to [outgoing, incoming].    *)

EmptyInfo == [outgoing |-> <<>>, incoming |-> <<>>]

Has(m, k) == k \in DOMAIN m

Put(m, k, v) == [x \in (DOMAIN m) \cup {k} |-> IF x = k THEN v ELSE m[x]]

Drop(m, k) == [x \in (DOMAIN m) \ {k} |-> m[x]]

EmptyMap == [x \in {} |-> 0]

\* incoming.filter(link => link.target !== sourcePath)
NotFrom(incoming, sourcePath) ==
    SelectSeqBy(incoming, {l \in Range(incoming) : l.target # sourcePath})

AddIncomingLink(bl, targetPath, linkRef) ==
    LET bl1 == IF Has(bl, targetPath) THEN bl ELSE Put(bl, targetPath, EmptyInfo)
    IN [bl1 EXCEPT ![targetPath].incoming = Append(@, linkRef)]

RemoveIncomingLink(bl, targetPath, sourcePath) ==
    IF Has(bl, targetPath)
    THEN [bl EXCEPT ![targetPath].incoming = NotFrom(@, sourcePath)]
    ELSE bl

RECURSIVE RemoveIncomingAll(_, _, _)
RemoveIncomingAll(bl, outgoing, normalizedPath) ==
    IF outgoing = <<>> THEN bl
    ELSE RemoveIncomingAll(
             RemoveIncomingLink(bl, ResolveTargetPath(Head(outgoing).target, normalizedPath),
                                normalizedPath),
             Tail(outgoing), normalizedPath)

RemoveFileLinks(bl, filePath) ==
    LET normalizedPath == NormalizePath(filePath)
    IN IF ~Has(bl, normalizedPath) THEN bl
       ELSE [RemoveIncomingAll(bl, bl[normalizedPath].outgoing, normalizedPath)
                EXCEPT ![normalizedPath].outgoing = <<>>]

RECURSIVE AddIncomingAll(_, _, _)
AddIncomingAll(bl, links, normalizedPath) ==
    IF links = <<>> THEN bl
    ELSE AddIncomingAll(
             AddIncomingLink(bl, ResolveTargetPath(Head(links).target, normalizedPath),
                             Link(normalizedPath, Head(links).line)),
             Tail(links), normalizedPath)

AddFileLinks(bl, filePath, links) ==
    LET normalizedPath == NormalizePath(filePath)
        bl1 == IF Has(bl, normalizedPath) THEN bl ELSE Put(bl, normalizedPath, EmptyInfo)
        bl2 == [bl1 EXCEPT ![normalizedPath].outgoing = links]
    IN AddIncomingAll(bl2, links, normalizedPath)

UpdateFileLinks(bl, filePath, links) ==
    AddFileLinks(RemoveFileLinks(bl, filePath), filePath, links)

\* BacklinkEngine.removeFile
BacklinkRemoveFile(bl, filePath) ==
    LET normalizedPath == NormalizePath(filePath)
        bl1 == RemoveFileLinks(bl, normalizedPath)
        bl2 == [k \in DOMAIN bl1 |->
                   [bl1[k] EXCEPT !.incoming = NotFrom(@, normalizedPath)]]
    IN Drop(bl2, normalizedPath)

\* the neighbours array of traverseGraph and getShortestPath
Neighbors(bl, path) ==
    [i \in 1..Len(bl[path].outgoing) |->
        ResolveTargetPath(bl[path].outgoing[i].target, path)]
    \o [i \in 1..Len(bl[path].incoming) |-> bl[path].incoming[i].target]

-----------------------------------------------------------------------------
(* BacklinkEngine: queries *)

\* traverseGraph: st = [visited, related] is threaded through the recursion
RECURSIVE TraverseGraph(_, _, _, _, _)
RECURSIVE TraverseNeighbors(_, _, _, _, _)
TraverseGraph(bl, currentPath, currentHops, maxHops, st) ==
    IF currentHops >= maxHops THEN st
    ELSE LET st1 == [st EXCEPT !.visited = @ \cup {currentPath}]
         IN IF ~Has(bl, currentPath) THEN st1
            ELSE TraverseNeighbors(bl, Neighbors(bl, currentPath), currentHops, maxHops, st1)

TraverseNeighbors(bl, nbrs, currentHops, maxHops, st) ==
    IF nbrs = <<>> THEN st
    ELSE LET neighbor == Head(nbrs)
             distance == currentHops + 1
         IN IF neighbor \in st.visited
            THEN TraverseNeighbors(bl, Tail(nbrs), currentHops, maxHops, st)
            ELSE LET rel == IF ~Has(st.related, neighbor) \/ distance < st.related[neighbor]
                            THEN Put(st.related, neighbor, distance)
                            ELSE st.related
                     st2 == TraverseGraph(bl, neighbor, distance, maxHops,
                                          [st EXCEPT !.related = rel])
                 IN TraverseNeighbors(bl, Tail(nbrs), currentHops, maxHops, st2)

\* findRelatedFiles: a map from path to hop distance
FindRelatedFiles(bl, filePath, maxHops) ==
    LET normalizedPath == NormalizePath(filePath)
        st == TraverseGraph(bl, normalizedPath, 0, maxHops,
                            [visited |-> {}, related |-> EmptyMap])
    IN Drop(st.related, normalizedPath)

NoPath == <<>>

\* getShortestPath: the queue holds the routes, route[Len(route)] being the path
RECURSIVE ShortestLoop(_, _, _, _, _)
RECURSIVE ShortestScan(_, _, _, _, _, _, _)
ShortestLoop(bl, normalizedTo, maxDepth, queue, visited) ==
    IF queue = <<>> THEN NoPath
    ELSE LET route == Head(queue)
             path == route[Len(route)]
         IN IF Len(route) > maxDepth \/ ~Has(bl, path)
            THEN ShortestLoop(bl, normalizedTo, maxDepth, Tail(queue), visited)
            ELSE ShortestScan(bl, normalizedTo, maxDepth, Tail(queue), visited,
                              route, Neighbors(bl, path))

ShortestScan(bl, normalizedTo, maxDepth, queue, visited, route, nbrs) ==
    IF nbrs = <<>> THEN ShortestLoop(bl, normalizedTo, maxDepth, queue, visited)
    ELSE LET neighbor == Head(nbrs)
         IN IF neighbor = normalizedTo THEN Append(route, neighbor)
            ELSE IF neighbor \notin visited
            THEN ShortestScan(bl, normalizedTo, maxDepth, Append(queue, Append(route, neighbor)),
                              visited \cup {neighbor}, route, Tail(nbrs))
            ELSE ShortestScan(bl, normalizedTo, maxDepth, queue, visited, route, Tail(nbrs))

GetShortestPath(bl, fromPath, toPath, maxDepth) ==
    LET normalizedFrom == NormalizePath(fromPath)
        normalizedTo == NormalizePath(toPath)
    IN IF normalizedFrom = normalizedTo THEN <<normalizedFrom>>
       ELSE ShortestLoop(bl, normalizedTo, maxDepth, <<<<normalizedFrom>>>>, {normalizedFrom})

\* getBrokenLinks: the links it emits, each with its source, target and line
\* (the suggestions it attaches are left out)
GetBrokenLinks(bl, exists) ==
    UNION {{[source |-> sourcePath,
             target |-> bl[sourcePath].outgoing[i].target,
             line |-> bl[sourcePath].outgoing[i].line] :
               i \in {k \in 1..Len(bl[sourcePath].outgoing) :
                         ResolveTargetPath(bl[sourcePath].outgoing[k].target, sourcePath)
                             \notin exists}} :
           sourcePath \in DOMAIN bl}

\* getOrphanedFiles: the paths it returns
GetOrphanedFiles(bl) == {filePath \in DOMAIN bl : Len(bl[filePath].incoming) = 0}

-----------------------------------------------------------------------------
(* BacklinkEngine: PageRank.  The numbers of calculatePageRank are taken   *)
(* as exact fractions <<numerator, denominator>> in lowest terms.          *)

RECURSIVE GCD(_, _)
GCD(a, b) == IF b = 0 THEN a ELSE GCD(b, a % b)

Rat(n, d) == IF n = 0 THEN <<0, 1>> ELSE <<n \div GCD(n, d), d \div GCD(n, d)>>

RAdd(x, y) ==
    LET g == GCD(x[2], y[2])
    IN Rat(x[1] * (y[2] \div g) + y[1] * (x[2] \div g), (x[2] \div g) * y[2])

RMul(x, y) ==
    IF x[1] = 0 \/ y[1] = 0 THEN <<0, 1>>
    ELSE LET g1 == GCD(x[1], y[2])
             g2 == GCD(y[1], x[2])
         IN Rat((x[1] \div g1) * (y[1] \div g2), (x[2] \div g2) * (y[2] \div g1))

\* what the fractions amount[x] add up to over the x in S
RECURSIVE SumOver(_, _)
SumOver(amount, S) ==
    IF S = {} THEN <<0, 1>>
    ELSE LET x == CHOOSE y \in S : TRUE
         IN RAdd(amount[x], SumOver(amount, S \ {x}))

\* one iteration of calculatePageRank: newRanks.  A link is <<file, position>>.
NewRanks(bl, ranks, dampingFactor) ==
    LET fileCount == Cardinality(DOMAIN bl)
        base == RMul(Rat(dampingFactor[2] - dampingFactor[1], dampingFactor[2]),
                     <<1, fileCount>>)
        links == UNION {{<<file, k>> : k \in 1..Len(bl[file].outgoing)} :
                        file \in DOMAIN bl}
        target == [c \in links |->
                      ResolveTargetPath(bl[c[1]].outgoing[c[2]].target, c[1])]
        contribution == [c \in links |->
                            RMul(RMul(IF Has(ranks, c[1]) THEN ranks[c[1]] ELSE <<0, 1>>,
                                      dampingFactor),
                                 <<1, Len(bl[c[1]].outgoing)>>)]
    IN [t \in (DOMAIN bl) \cup {target[c] : c \in links} |->
           RAdd(IF Has(bl, t) THEN base ELSE <<0, 1>>,
                SumOver(contribution, {c \in links : target[c] = t}))]

RECURSIVE PageRankLoop(_, _, _, _)
PageRankLoop(bl, ranks, iterations, dampingFactor) ==
    IF iterations = 0 THEN ranks
    ELSE LET newRanks == NewRanks(bl, ranks, dampingFactor)
         IN \* an iteration that changes nothing is followed by equal ones
            IF newRanks = ranks THEN ranks
            ELSE PageRankLoop(bl, newRanks, iterations - 1, dampingFactor)

CalculatePageRank(bl, iterations, dampingFactor) ==
    IF DOMAIN bl = {} THEN EmptyMap
    ELSE PageRankLoop(bl, [file \in DOMAIN bl |-> <<1, Cardinality(DOMAIN bl)>>],
                      iterations, dampingFactor)

-----------------------------------------------------------------------------
(* TagEngine.  A value tg is the tags map, a function from the normalized  *)
(* tags it holds to their TagInfo; of TagInfo the set of files is kept.    *)

NormalizeTag(tag) == Lower(tag)

NormalizeTags(tagNames) ==
    LET mapped == [i \in 1..Len(tagNames) |-> NormalizeTag(tagNames[i])]
    IN Dedup(SelectSeqBy(mapped, Range(mapped) \ {""}))

AddOrUpdateTag(tg, tag, filePath) ==
    LET tg1 == IF Has(tg, tag) THEN tg ELSE Put(tg, tag, [files |-> {}])
    IN [tg1 EXCEPT ![tag].files = @ \cup {filePath}]

RECURSIVE AddNormalizedTags(_, _, _)
AddNormalizedTags(tg, filePath, normalizedTags) ==
    IF normalizedTags = <<>> THEN tg
    ELSE AddNormalizedTags(AddOrUpdateTag(tg, Head(normalizedTags), filePath),
                           filePath, Tail(normalizedTags))

AddTags(tg, filePath, tagNames) ==
    AddNormalizedTags(tg, filePath, NormalizeTags(tagNames))

RemoveAllTagsFromFile(tg, filePath) ==
    [t \in DOMAIN tg |-> [tg[t] EXCEPT !.files = @ \ {filePath}]]

\* removeTags(filePath) without tag names
RemoveTags(tg, filePath) == RemoveAllTagsFromFile(tg, filePath)

\* an updateFileTags that adds the new tags and keeps the old memberships
AddTagsOnly(tg, filePath, newTags) == AddTags(tg, filePath, newTags)

UpdateFileTags(tg, filePath, newTags) ==
    AddTags(RemoveTags(tg, filePath), filePath, newTags)

CleanupOrphanedTags(tg) ==
    [t \in {x \in DOMAIN tg : tg[x].files # {}} |-> tg[t]]

FileSets(tg, normalizedTags) ==
    [i \in 1..Len(normalizedTags) |->
        IF Has(tg, normalizedTags[i]) THEN tg[normalizedTags[i]].files ELSE {}]

\* getFilesByTags: the result as a set
GetFilesByTags(tg, tagNames, mode) ==
    IF tagNames = <<>> THEN {}
    ELSE LET sets == FileSets(tg, NormalizeTags(tagNames))
         IN IF sets = <<>> THEN {}
            ELSE IF mode = "and"
            THEN {f \in sets[1] : \A i \in 1..Len(sets) : f \in sets[i]}
            ELSE UNION Range(sets)

\* updateCoOccurrences: co is the co_occurring_tags of all tags, tag by tag
RECURSIVE UpdateCoOccurrences(_, _, _)
UpdateCoOccurrences(co, tag, coOccurringTags) ==
    IF coOccurringTags = <<>> THEN co
    ELSE LET coTag == Head(coOccurringTags)
             mine == IF Has(co, tag) THEN co[tag] ELSE EmptyMap
             currentCount == IF Has(mine, coTag) THEN mine[coTag] ELSE 0
         IN UpdateCoOccurrences(Put(co, tag, Put(mine, coTag, currentCount + 1)),
                                tag, Tail(coOccurringTags))

\* the loop of addTags, as far as the co-occurrence counts go
RECURSIVE AddCoOccurrences(_, _, _)
AddCoOccurrences(co, normalizedTags, i) ==
    IF i > Len(normalizedTags) THEN co
    ELSE LET tag == normalizedTags[i]
             others == SelectSeqBy(normalizedTags, Range(normalizedTags) \ {tag})
             co1 == IF Has(co, tag) THEN co ELSE Put(co, tag, EmptyMap)
         IN AddCoOccurrences(UpdateCoOccurrences(co1, tag, others), normalizedTags, i + 1)

\* updateFileTags, as far as the co-occurrence counts go: removeTags leaves them
UpdateFileCoOccurring(co, newTags) == AddCoOccurrences(co, NormalizeTags(newTags), 1)

-----------------------------------------------------------------------------
(* Indexer.  A value ix holds the Indexer's map of files and the state of  *)
(* the two engines it drives.                                              *)

EmptyIndex ==
    [files |-> EmptyMap, tags |-> EmptyMap, backlinks |-> EmptyMap, fileExists |-> {}]

Index == [files |-> files, tags |-> tags, backlinks |-> backlinks, fileExists |-> fileExists]

\* the IndexedFile built by indexFile; hash stands for contentHash, and the
\* new record has no embeddings
IndexedFile(mtime, c) ==
    [lastModified |-> mtime, hash |-> c,
     tags |-> ContentOf(c).tags, links |-> ContentOf(c).links, embeddings |-> <<>>]

\* an indexFile that stores the record and the tags of the new version and
\* leaves the Link Index for later
IndexFileTagsOnly(ix, relativePath, mtime, c) ==
    [files |-> Put(ix.files, relativePath, IndexedFile(mtime, c)),
     tags |-> UpdateFileTags(ix.tags, relativePath, ContentOf(c).tags),
     backlinks |-> ix.backlinks,
     fileExists |-> ix.fileExists \cup {relativePath, NormalizePath(relativePath)}]

\* indexFile after a successful read and parse: the synchronous tail
IndexFileApply(ix, relativePath, mtime, c) ==
    [files |-> Put(ix.files, relativePath, IndexedFile(mtime, c)),
     tags |-> UpdateFileTags(ix.tags, relativePath, ContentOf(c).tags),
     backlinks |-> UpdateFileLinks(ix.backlinks, relativePath, ContentOf(c).links),
     fileExists |-> ix.fileExists \cup {relativePath, NormalizePath(relativePath)}]

\* indexFile: a content that does not parse throws before anything is changed
IndexFile(ix, relativePath, mtime, c) ==
    IF ContentOf(c).ok THEN IndexFileApply(ix, relativePath, mtime, c) ELSE ix

\* a removeFile that deletes the Document Record and nothing else
RemoveRecordOnly(ix, relativePath) ==
    [ix EXCEPT !.files = IF Has(@, relativePath) THEN Drop(@, relativePath) ELSE @]

\* Indexer.removeFile
RemoveFile(ix, relativePath) ==
    IF ~Has(ix.files, relativePath) THEN ix
    ELSE [files |-> Drop(ix.files, relativePath),
          tags |-> RemoveTags(ix.tags, relativePath),
          backlinks |-> BacklinkRemoveFile(ix.backlinks, relativePath),
          fileExists |-> ix.fileExists \ {NormalizePath(relativePath)}]

\* an updateFile that never takes a file for unmodified
NeverNotModified(ix, relativePath, mtime) == FALSE

\* the guard of updateFile
NotModified(ix, relativePath, mtime) ==
    Has(ix.files, relativePath) /\ ix.files[relativePath].lastModified >= mtime

\* getFileInfo of a file that does not exist: exists false, modified Date(0)
Gone == [exists |-> FALSE, mtime |-> 0, c |-> "none"]

\* updateFile, given what getFileInfo and readFile answer
UpdateFileResult(ix, relativePath, info) ==
    IF ~info.exists THEN RemoveFile(ix, relativePath)
    ELSE IF NotModified(ix, relativePath, info.mtime) THEN ix
    ELSE IndexFile(ix, relativePath, info.mtime, info.c)

\* updateFile, as far as the co-occurrence counts of the Tag Index go
UpdateFileCounts(co, ix, relativePath, info) ==
    IF ~info.exists THEN co
    ELSE IF NotModified(ix, relativePath, info.mtime) THEN co
    ELSE IF ContentOf(info.c).ok THEN UpdateFileCoOccurring(co, ContentOf(info.c).tags)
    ELSE co

\* Indexer.getFilesByTag: getFilesByTags is called without a mode, and the
\* paths without a record are filtered out
IndexerGetFilesByTag(ix, tagNames) ==
    {path \in GetFilesByTags(ix.tags, tagNames, "and") : Has(ix.files, path)}

\* handleGetFilesByTag: the paths of the files it returns; mode is only echoed
HandleGetFilesByTag(ix, tagNames, mode) == IndexerGetFilesByTag(ix, tagNames)

\* a loop that stops at the first file that fails
RECURSIVE IndexListingAborting(_, _, _)
IndexListingAborting(ix, listing, i) ==
    IF i > Len(DocList) THEN ix
    ELSE IF listing[i].exists /\ ~ContentOf(listing[i].c).ok THEN ix
    ELSE IndexListingAborting(
            IF ~listing[i].exists THEN ix
            ELSE IndexFile(ix, DocList[i], listing[i].mtime, listing[i].c),
            listing, i + 1)

\* the loop of buildInitialIndex over a listing; a file that is not listed is Gone
RECURSIVE IndexListing(_, _, _)
IndexListing(ix, listing, i) ==
    IF i > Len(DocList) THEN ix
    ELSE IndexListing(
            IF ~listing[i].exists THEN ix
            ELSE IndexFile(ix, DocList[i], listing[i].mtime, listing[i].c),
            listing, i + 1)

\* the clears of reindexAll
ClearIndex(ix) == EmptyIndex

ReindexAllResult(ix, listing) == IndexListing(ClearIndex(ix), listing, 1)

-----------------------------------------------------------------------------
(* LRUEmbeddingCache.  A value c is the cache Map: the sequence of its      *)
(* entries [key, timestamp] in insertion order.  The embedding an entry     *)
(* holds plays no part in eviction and is left out.                         *)

KeyNames == <<"k1", "k2", "k3", "k4">>

\* one key more than the cache can hold
CacheKeys == {KeyNames[i] : i \in 1..(Capacity + 1)}

\* the '' that evictOldest starts from
NoKey == ""

CacheKeysOf(c) == {c[i].key : i \in 1..Len(c)}

CacheHas(c, key) == key \in CacheKeysOf(c)

\* Map.delete
CacheDelete(c, key) == SelectSeqBy(c, {e \in Range(c) : e.key # key})

\* the loop of evictOldest from entry i on
RECURSIVE EvictScan(_, _, _, _)
EvictScan(c, i, oldestKey, oldestTime) ==
    IF i > Len(c) THEN oldestKey
    ELSE IF c[i].timestamp < oldestTime
    THEN EvictScan(c, i + 1, c[i].key, c[i].timestamp)
    ELSE EvictScan(c, i + 1, oldestKey, oldestTime)

\* evictOldest, with t the value of Date.now()
EvictOldest(c, t) ==
    LET oldestKey == EvictScan(c, 1, NoKey, t)
    IN IF oldestKey # NoKey THEN CacheDelete(c, oldestKey) ELSE c

\* Map.set: an existing key keeps its place
MapSet(c, key, t) ==
    IF CacheHas(c, key)
    THEN [i \in 1..Len(c) |-> IF c[i].key = key THEN [key |-> key, timestamp |-> t] ELSE c[i]]
    ELSE Append(c, [key |-> key, timestamp |-> t])

\* LRUEmbeddingCache.set
CacheSetEntry(c, key, t) ==
    LET c1 == IF Len(c) >= Capacity /\ ~CacheHas(c, key) THEN EvictOldest(c, t) ELSE c
    IN MapSet(c1, key, t)

\* LRUEmbeddingCache.get: a hit refreshes the entry's timestamp
CacheGetEntry(c, key, t) == IF CacheHas(c, key) THEN MapSet(c, key, t) ELSE c

-----------------------------------------------------------------------------
(* Completed operations of the Indexer, one action each.  What the Content *)
(* Store answers (existence, modification time, content) is an input.      *)
(* q holds what the last operation returned until the caller takes it.     *)

NoQuery == [op |-> "none"]

SetIndex(ix) ==
    /\ files' = ix.files
    /\ tags' = ix.tags
    /\ backlinks' = ix.backlinks
    /\ fileExists' = ix.fileExists

\* the versions of its content a file goes through
DocContents(f) ==
    CASE f = DocA -> {"c1", "c2", "bad"}
      [] f = DocB -> {"c3", "c2", "bad"}
      [] OTHER -> {"c2", "c1", "c4", "bad"}

FileInfos(f) == {Gone} \cup [exists : {TRUE}, mtime : Mtimes, c : DocContents(f)]

\* the content a file has when a build lists the vault
ListedContents(f) ==
    CASE f = DocA -> {"c1", "bad"}
      [] f = DocB -> {"c3", "bad"}
      [] OTHER -> {"c2", "bad"}

\* the listings of listMarkdownFiles, with what readFile returns for each file
Listings ==
    {l \in [1..Len(DocList) -> {Gone} \cup [exists : {TRUE}, mtime : {1}, c : Contents]] :
        \A i \in 1..Len(DocList) : l[i].exists => l[i].c \in ListedContents(DocList[i])}

\* a slot in which no call is in progress
Idle == [pc |-> "idle"]

\* a newly constructed Indexer over the vault st
InitIndex(st) ==
    /\ files = EmptyMap
    /\ tags = EmptyMap
    /\ backlinks = EmptyMap
    /\ fileExists = {}
    /\ isBuilding = FALSE
    /\ q = NoQuery
    /\ cache = <<>>
    /\ now = 0
    /\ recency = <<>>
    /\ store = st
    /\ calls = [p \in Callers |-> Idle]
    /\ handlers = [f \in Docs |-> Idle]
    /\ pending = [f \in Docs |-> <<>>]
    /\ parsedOnce = [f \in Docs |-> FALSE]
    /\ coOccurring = EmptyMap

\* a SearchEngine without an embedding provider, before its first search.
\* An optional value is <<>> when undefined and <<v>> when it is v.
InitOver(st) ==
    /\ InitIndex(st)
    /\ embeddingProvider = FALSE
    /\ pageRankCache = <<>>
    /\ pageRankCacheTime = 0

\* the vault with no file in it
NoFiles == [f \in Docs |-> Gone]

Init == InitOver(NoFiles)

\* updateFile(filePath), run to completion
UpdateFile(f, info) ==
    /\ q = NoQuery
    /\ SetIndex(UpdateFileResult(Index, f, info))
    /\ q' = [op |-> "updateFile", id |-> f,
             ret |-> IF ~info.exists THEN "removed"
                     ELSE IF NotModified(Index, f, info.mtime) THEN "skipped"
                     ELSE IF ContentOf(info.c).ok THEN "indexed" ELSE "failed"]
    /\ UNCHANGED <<isBuilding, cacheVars, asyncVars, tagVars, searchVars>>

\* removeFile(filePath), run to completion
RemoveDocument(f) ==
    /\ q = NoQuery
    /\ SetIndex(RemoveFile(Index, f))
    /\ q' = [op |-> "removeFile", id |-> f,
             ret |-> IF Has(files, f) THEN "removed" ELSE "absent"]
    /\ UNCHANGED <<isBuilding, cacheVars, asyncVars, tagVars, searchVars>>

\* buildInitialIndex(), run to completion with no other build in progress
BuildInitialIndex(listing) ==
    /\ q = NoQuery
    /\ ~isBuilding
    /\ SetIndex(IndexListing(Index, listing, 1))
    /\ q' = [op |-> "buildInitialIndex", listing |-> listing]
    /\ UNCHANGED <<isBuilding, cacheVars, asyncVars, tagVars, searchVars>>

\* reindexAll(), run to completion with no other build in progress
ReindexAll(listing) ==
    /\ q = NoQuery
    /\ ~isBuilding
    /\ SetIndex(ReindexAllResult(Index, listing))
    /\ q' = [op |-> "reindexAll", listing |-> listing]
    /\ UNCHANGED <<isBuilding, cacheVars, asyncVars, tagVars, searchVars>>

\* findRelatedFiles(id, maxHops)
Related(id, maxHops) ==
    /\ q = NoQuery
    /\ q' = [op |-> "related", id |-> id, maxHops |-> maxHops,
             ret |-> FindRelatedFiles(backlinks, id, maxHops)]
    /\ UNCHANGED <<indexVars, isBuilding, cacheVars, asyncVars, tagVars, searchVars>>

\* getShortestPath(from, to, maxDepth)
ShortestPath(from, to, maxDepth) ==
    /\ q = NoQuery
    /\ q' = [op |-> "shortestPath", from |-> from, to |-> to, maxDepth |-> maxDepth,
             ret |-> GetShortestPath(backlinks, from, to, maxDepth)]
    /\ UNCHANGED <<indexVars, isBuilding, cacheVars, asyncVars, tagVars, searchVars>>

\* the tag lists and modes callers ask for
TagQueries == {<<"t1">>, <<"t2">>, <<"T1", "t2">>}

Modes == {"and", "or"}

\* the get_files_by_tag tool
FindByTag(tagNames, mode) ==
    /\ q = NoQuery
    /\ q' = [op |-> "findByTag", tags |-> tagNames, mode |-> mode,
             ret |-> HandleGetFilesByTag(Index, tagNames, mode)]
    /\ UNCHANGED <<indexVars, isBuilding, cacheVars, asyncVars, tagVars, searchVars>>

\* the damping factors callers pass: the default 0.85, and 0.5
Dampings == {<<17, 20>>, <<1, 2>>}

\* calculatePageRank(iterations, dampingFactor)
PageRank(iterations, dampingFactor) ==
    /\ q = NoQuery
    /\ q' = [op |-> "pageRank", iterations |-> iterations,
             ret |-> CalculatePageRank(backlinks, iterations, dampingFactor)]
    /\ UNCHANGED <<indexVars, isBuilding, cacheVars, asyncVars, tagVars, searchVars>>

\* getBrokenLinks()
BrokenLinks ==
    /\ q = NoQuery
    /\ q' = [op |-> "brokenLinks", ret |-> GetBrokenLinks(backlinks, fileExists)]
    /\ UNCHANGED <<indexVars, isBuilding, cacheVars, asyncVars, tagVars, searchVars>>

\* getOrphanedFiles()
Orphaned ==
    /\ q = NoQuery
    /\ q' = [op |-> "orphaned", ret |-> GetOrphanedFiles(backlinks)]
    /\ UNCHANGED <<indexVars, isBuilding, cacheVars, asyncVars, tagVars, searchVars>>

\* the caller takes the result of the last operation
Return ==
    /\ q # NoQuery
    /\ q' = NoQuery
    /\ UNCHANGED <<indexVars, isBuilding, cacheVars, asyncVars, tagVars, searchVars>>

Next ==
    \/ \E f \in Docs : \E info \in FileInfos(f) : UpdateFile(f, info)
    \/ \E f \in Docs : RemoveDocument(f)
    \/ \E listing \in Listings : BuildInitialIndex(listing)
    \/ \E listing \in Listings : ReindexAll(listing)
    \/ \E id \in Docs, h \in 1..MaxHops : Related(id, h)
    \/ \E from \in Docs, to \in Docs, d \in 0..MaxDepth : ShortestPath(from, to, d)
    \/ \E tagNames \in TagQueries, mode \in Modes : FindByTag(tagNames, mode)
    \/ \E n \in 1..MaxIterations, d \in Dampings : PageRank(n, d)
    \/ BrokenLinks
    \/ Orphaned
    \/ Return

Spec == Init /\ [][Next]_vars

-----------------------------------------------------------------------------
(* What the specification asks of the Link Index and of the Tag Index *)

\* the resolved targets of the outgoing links the Link Index holds for path
OutgoingTargets(bl, path) ==
    IF Has(bl, path)
    THEN {ResolveTargetPath(bl[path].outgoing[i].target, path) :
             i \in 1..Len(bl[path].outgoing)}
    ELSE {}

\* the sources of the incoming entries the Link Index holds for path
IncomingSources(bl, path) ==
    IF Has(bl, path)
    THEN {bl[path].incoming[i].target : i \in 1..Len(bl[path].incoming)}
    ELSE {}

\* the undirected link adjacency: the union of outgoing and incoming links
Adjacent(bl, x) ==
    OutgoingTargets(bl, x) \cup IncomingSources(bl, x)
      \cup {y \in DOMAIN bl : x \in OutgoingTargets(bl, y) \cup IncomingSources(bl, y)}

\* the paths within n edges of x
RECURSIVE Within(_, _, _)
Within(bl, x, n) ==
    IF n = 0 THEN {x}
    ELSE LET inner == Within(bl, x, n - 1)
         IN inner \cup UNION {Adjacent(bl, y) : y \in inner}

\* the least number of edges between x and a path y within n edges of x
HopDistance(bl, x, y, n) == CHOOSE d \in 0..n : y \in Within(bl, x, d) /\
                               \A e \in 0..(d - 1) : y \notin Within(bl, x, e)

MinimumHops(bl, x, maxHops) ==
    [y \in Within(bl, x, maxHops) \ {x} |-> HopDistance(bl, x, y, maxHops)]

\* route leads from x to y along edges of the adjacency
IsRoute(bl, route, x, y) ==
    /\ Len(route) >= 1
    /\ route[1] = x
    /\ route[Len(route)] = y
    /\ \A i \in 1..(Len(route) - 1) : route[i + 1] \in Adjacent(bl, route[i])

\* C1: between completed operations, for all indexed documents A and B, A's
\* outgoing list holds a link that resolves to B if and only if B's incoming
\* list holds an entry whose source is A.
LinksBidirectional ==
    \A a \in DOMAIN files, b \in DOMAIN files :
        (NormalizePath(b) \in OutgoingTargets(backlinks, NormalizePath(a)))
          <=> (NormalizePath(a) \in IncomingSources(backlinks, NormalizePath(b)))

\* C2: between completed operations the Tag Index holds no Tag Entry whose
\* document set is empty.
NoEmptyTagEntry == \A t \in DOMAIN tags : tags[t].files # {}

\* C9: for an indexed document id, related(id, maxHops) returns exactly the paths within maxHops edges of id
\* over the undirected adjacency, id excluded, each with its minimum hop distance.
RelatedIsMinimumHops ==
    (q.op = "related" /\ q.id \in DOMAIN files) =>
        q.ret = MinimumHops(backlinks, NormalizePath(q.id), q.maxHops)

\* C10: for indexed documents from # to, shortestPath(from, to, maxDepth) returns a route with the
\* least number of edges when a route of at most maxDepth edges exists, and
\* 'not found' otherwise.
ShortestPathIsShortest ==
    (q.op = "shortestPath" /\ q.from # q.to /\ {q.from, q.to} \subseteq DOMAIN files) =>
        LET x == NormalizePath(q.from)
            y == NormalizePath(q.to)
        IN IF y \in Within(backlinks, x, q.maxDepth)
           THEN /\ IsRoute(backlinks, q.ret, x, y)
                /\ Len(q.ret) - 1 = HopDistance(backlinks, x, y, q.maxDepth)
           ELSE q.ret = NoPath

\* the identifiers of the indexed documents, normalized
IndexedPaths == {NormalizePath(f) : f \in DOMAIN files}

\* the identifier a link target stands for: a relative link resolves against
\* the directory of its source, an absolute link from the vault root, a bare
\* name relative to the directory of its source; identifiers are normalized
\* relative paths
TargetIdentifier(target, source) ==
    LET r == ResolveTargetPath(target, source)
    IN IF Len(r) > 1 /\ r[1] = "" THEN Tail(r) ELSE r

\* the outgoing links of indexed documents whose resolved target is not indexed
BrokenOutgoing ==
    UNION {{[source |-> NormalizePath(f),
             target |-> files[f].links[i].target,
             line |-> files[f].links[i].line] :
               i \in {k \in 1..Len(files[f].links) :
                         TargetIdentifier(files[f].links[k].target, NormalizePath(f))
                             \notin IndexedPaths}} :
           f \in DOMAIN files}

\* C11: brokenLinks() returns exactly the outgoing links of indexed documents
\* whose resolved target is not an indexed document, and every such link is
\* still in the outgoing list the Link Index holds for its source.
BrokenLinksAreExact ==
    q.op = "brokenLinks" =>
        /\ q.ret = BrokenOutgoing
        /\ \A b \in BrokenOutgoing :
               /\ Has(backlinks, b.source)
               /\ \E i \in 1..Len(backlinks[b.source].outgoing) :
                      /\ backlinks[b.source].outgoing[i].target = b.target
                      /\ backlinks[b.source].outgoing[i].line = b.line

\* C12: orphaned() returns exactly the indexed documents with no incoming
\* link, and no identifier without a Document Record.
OrphanedAreIndexed ==
    q.op = "orphaned" =>
        q.ret = {NormalizePath(f) : f \in {g \in DOMAIN files :
                    ~Has(backlinks, NormalizePath(g))
                        \/ backlinks[NormalizePath(g)].incoming = <<>>}}

\* the tags a document carries, normalized
CarriedTags(f) == Range(NormalizeTags(files[f].tags))

\* C15: findByTag(tags, mode) returns, for mode AND, exactly the indexed
\* documents that carry every given tag and, for mode OR, exactly those that
\* carry at least one of them.
FindByTagFollowsMode ==
    q.op = "findByTag" =>
        LET asked == Range(NormalizeTags(q.tags))
        IN q.ret = IF q.mode = "and"
                   THEN {f \in DOMAIN files : asked \subseteq CarriedTags(f)}
                   ELSE {f \in DOMAIN files : asked \cap CarriedTags(f) # {}}

\* every indexed document has an outgoing link and every outgoing link
\* resolves to an indexed document
NoDanglingDocument ==
    /\ DOMAIN files # {}
    /\ \A f \in DOMAIN files :
           /\ files[f].links # <<>>
           /\ \A i \in 1..Len(files[f].links) :
                  /\ ResolveTargetPath(files[f].links[i].target, NormalizePath(f))
                         \in IndexedPaths
                  /\ TargetIdentifier(files[f].links[i].target, NormalizePath(f))
                         \in IndexedPaths

\* C17: when no indexed document is dangling, the values pageRank() returns
\* sum to 1 in exact arithmetic.
PageRankSumsToOne ==
    (q.op = "pageRank" /\ NoDanglingDocument) =>
        SumOver(q.ret, DOMAIN q.ret) = <<1, 1>>

-----------------------------------------------------------------------------
(* The embedding cache under get, set, delete and clear, with a clock that  *)
(* may or may not advance between two calls.                                *)

\* key becomes the most recently accessed
Touch(order, key) == Append(SelectSeqBy(order, Range(order) \ {key}), key)

\* Date.now() moves on
Tick ==
    /\ now < MaxNow
    /\ now' = now + 1
    /\ UNCHANGED <<indexVars, isBuilding, q, cache, recency, asyncVars, tagVars, searchVars>>

CacheGet(key) ==
    /\ q = NoQuery
    /\ cache' = CacheGetEntry(cache, key, now)
    /\ recency' = IF CacheHas(cache, key) THEN Touch(recency, key) ELSE recency
    /\ q' = [op |-> "get", key |-> key, hit |-> CacheHas(cache, key)]
    /\ UNCHANGED <<indexVars, isBuilding, now, asyncVars, tagVars, searchVars>>

CacheSet(key) ==
    /\ q = NoQuery
    /\ cache' = CacheSetEntry(cache, key, now)
    /\ recency' = Touch(SelectSeqBy(recency, CacheKeysOf(cache')), key)
    /\ q' = [op |-> "set", key |-> key,
             full |-> Len(cache) >= Capacity /\ ~CacheHas(cache, key),
             lru |-> IF recency = <<>> THEN NoKey ELSE Head(recency),
             evicted |-> CacheKeysOf(cache) \ CacheKeysOf(cache')]
    /\ UNCHANGED <<indexVars, isBuilding, now, asyncVars, tagVars, searchVars>>

CacheRemove(key) ==
    /\ q = NoQuery
    /\ cache' = CacheDelete(cache, key)
    /\ recency' = SelectSeqBy(recency, Range(recency) \ {key})
    /\ q' = [op |-> "delete", key |-> key, hit |-> CacheHas(cache, key)]
    /\ UNCHANGED <<indexVars, isBuilding, now, asyncVars, tagVars, searchVars>>

CacheClear ==
    /\ q = NoQuery
    /\ cache' = <<>>
    /\ recency' = <<>>
    /\ q' = [op |-> "clear"]
    /\ UNCHANGED <<indexVars, isBuilding, now, asyncVars, tagVars, searchVars>>

NextCache ==
    \/ Tick
    \/ \E key \in CacheKeys : CacheGet(key)
    \/ \E key \in CacheKeys : CacheSet(key)
    \/ \E key \in CacheKeys : CacheRemove(key)
    \/ CacheClear
    \/ Return

SpecCache == Init /\ [][NextCache]_vars

\* C7: the number of cached entries never exceeds the capacity.
CacheWithinCapacity == Len(cache) <= Capacity

\* C8: a set() of a new key into a full cache evicts exactly the entry whose most
\* recent access (its insertion or its last get hit) is the earliest, and leaves
\* exactly capacity entries.
EvictsLeastRecentlyUsed ==
    (q.op = "set" /\ q.full) =>
        /\ q.evicted = {q.lru}
        /\ Len(cache) = Capacity

-----------------------------------------------------------------------------
(* Index builds step by step.  buildInitialIndex gives up control at each   *)
(* await: after listing the vault, after reading a file, after indexing it. *)
(* Other calls and reads run in between.                                    *)

\* the vaults a build may find
Stores ==
    {st \in [Docs -> {Gone} \cup [exists : {TRUE}, mtime : {1}, c : Contents]] :
        \A f \in Docs : st[f].exists => st[f].c \in ListedContents(f)}

InitBuild == \E st \in Stores : InitOver(st)

\* listMarkdownFiles: the FileInfo of the files that exist, in directory-walk order
RECURSIVE ListFrom(_, _)
ListFrom(st, i) ==
    IF i > Len(DocList) THEN <<>>
    ELSE (IF st[DocList[i]].exists
          THEN <<[relativePath |-> DocList[i], mtime |-> st[DocList[i]].mtime]>>
          ELSE <<>>) \o ListFrom(st, i + 1)

ListMarkdownFiles(st) == ListFrom(st, 1)

\* the documents a complete build over the vault st yields
ParseableDocs(st) == {f \in Docs : st[f].exists /\ ContentOf(st[f].c).ok}

\* the body of buildInitialIndex up to its first await
StartBuild(p, op, before) ==
    /\ isBuilding' = TRUE
    /\ calls' = [calls EXCEPT ![p] =
                    [pc |-> "loop", op |-> op, listing |-> ListMarkdownFiles(store),
                     i |-> 1, c |-> "none", stale |-> FALSE, before |-> before]]

\* buildInitialIndex() is called
CallBuildInitialIndex(p) ==
    /\ q = NoQuery
    /\ calls[p] = Idle
    /\ IF isBuilding
       THEN /\ q' = [op |-> "buildInitialIndex", ret |-> "skipped"]
            /\ UNCHANGED <<isBuilding, calls>>
       ELSE /\ StartBuild(p, "buildInitialIndex", DOMAIN files)
            /\ UNCHANGED q
    /\ UNCHANGED <<indexVars, cacheVars, store, handlers, pending, parsedOnce, tagVars, searchVars>>

\* reindexAll() is called: the clears, then buildInitialIndex
CallReindexAll(p) ==
    /\ q = NoQuery
    /\ calls[p] = Idle
    /\ SetIndex(ClearIndex(Index))
    /\ cache' = <<>>
    /\ recency' = <<>>
    /\ IF isBuilding
       THEN /\ q' = [op |-> "reindexAll", ret |-> "completed"]
            /\ UNCHANGED <<isBuilding, calls>>
       ELSE /\ StartBuild(p, "reindexAll", DOMAIN files)
            /\ UNCHANGED q
    /\ UNCHANGED <<now, store, handlers, pending, parsedOnce, tagVars, searchVars>>

\* the loop takes the next file and indexFile reads it
BuildRead(p) ==
    /\ q = NoQuery
    /\ calls[p].pc = "loop"
    /\ calls[p].i <= Len(calls[p].listing)
    /\ LET f == calls[p].listing[calls[p].i].relativePath
       IN calls' = [calls EXCEPT ![p] =
                       IF store[f].exists
                       THEN [@ EXCEPT !.pc = "apply", !.c = store[f].c, !.stale = FALSE]
                       ELSE [@ EXCEPT !.i = @ + 1]]
    /\ UNCHANGED <<indexVars, isBuilding, q, cacheVars, store, handlers, pending, parsedOnce, tagVars, searchVars>>

\* indexFile parses what it read and updates the three structures
BuildApply(p) ==
    /\ q = NoQuery
    /\ calls[p].pc = "apply"
    /\ LET fileInfo == calls[p].listing[calls[p].i]
           f == fileInfo.relativePath
       IN /\ SetIndex(IndexFile(Index, f, fileInfo.mtime, calls[p].c))
          /\ parsedOnce' = [parsedOnce EXCEPT
                               ![f] = @ \/ (ContentOf(calls[p].c).ok /\ ~calls[p].stale)]
    /\ calls' = [calls EXCEPT ![p] = [@ EXCEPT !.pc = "loop", !.i = @ + 1, !.c = "none"]]
    /\ UNCHANGED <<isBuilding, q, cacheVars, store, handlers, pending, tagVars, searchVars>>

\* the loop is over: buildEmbeddings without a provider, then the finally
BuildFinish(p) ==
    /\ q = NoQuery
    /\ calls[p].pc = "loop"
    /\ calls[p].i > Len(calls[p].listing)
    /\ isBuilding' = FALSE
    /\ calls' = [calls EXCEPT ![p] = Idle]
    /\ q' = [op |-> calls[p].op, ret |-> "completed"]
    /\ UNCHANGED <<indexVars, cacheVars, store, handlers, pending, parsedOnce, tagVars, searchVars>>

\* getAllFiles(): the documents a reader finds
GetAllFiles ==
    /\ q = NoQuery
    /\ q' = [op |-> "getAllFiles", ret |-> DOMAIN files]
    /\ UNCHANGED <<indexVars, isBuilding, cacheVars, asyncVars, tagVars, searchVars>>

NextBuild ==
    \/ \E p \in Callers : CallBuildInitialIndex(p)
    \/ \E p \in Callers : CallReindexAll(p)
    \/ \E p \in Callers : BuildRead(p)
    \/ \E p \in Callers : BuildApply(p)
    \/ \E p \in Callers : BuildFinish(p)
    \/ GetAllFiles
    \/ Return

SpecBuild == InitBuild /\ [][NextBuild]_vars

\* C3: while a reindexAll is in progress a read finds either the documents the
\* index held before the reindex or the documents of the complete rebuilt index.
ReadsSeeCompleteIndex ==
    q.op = "getAllFiles" =>
        \A p \in Callers :
            (calls[p] # Idle /\ calls[p].op = "reindexAll") =>
                q.ret \in {calls[p].before, ParseableDocs(store)}

\* C4: when a reindexAll call completes, the Document Index holds a record for
\* every file of the vault that parses.
ReindexAllIndexesEveryFile ==
    (q.op = "reindexAll" /\ q.ret = "completed") =>
        ParseableDocs(store) \subseteq DOMAIN files

-----------------------------------------------------------------------------
(* Incremental updates step by step.  Files are written and deleted at any  *)
(* moment, each change leaves a notification, and the notifications of a    *)
(* document are taken up in order, one at a time, each in an event-loop     *)
(* task of its own: a handler starts when no build is in progress and a     *)
(* rebuild starts when no handler is.  updateFile gives up control after    *)
(* getFileInfo and after readFile.                                          *)

\* the documents that change while the index is in use
NotifyDocs == {DocA}

\* the vault at the start: the other documents are there and do not change
BaseVault ==
    [f \in Docs |->
        IF f \in NotifyDocs THEN Gone
        ELSE [exists |-> TRUE, mtime |-> 1, c |-> CHOOSE c \in ListedContents(f) : ContentOf(c).ok]]

InitNotify == InitOver(BaseVault)

\* the callers that rebuild the index while documents change
NotifyCallers == {p \in Callers : p = MaxCallers}

\* no index build is in progress
NoBuild == \A p \in Callers : calls[p] = Idle

\* no notification is being handled
NoHandler == \A f \in Docs : handlers[f] = Idle

\* reindexAll() is called between two notifications
RebuildIndex(p) == NoHandler /\ CallReindexAll(p)

\* a read of f that is in flight no longer is a read of the file at f
MarkStale(slot, f) ==
    IF slot.pc = "read" THEN [slot EXCEPT !.stale = TRUE]
    ELSE IF slot.pc = "apply" /\ slot.listing[slot.i].relativePath = f
    THEN [slot EXCEPT !.stale = TRUE]
    ELSE slot

\* the modification time of a write: later than the last one, until the bound
NextMtime(f) == IF store[f].mtime < MaxMtime THEN store[f].mtime + 1 ELSE MaxMtime

\* a file is created or modified
WriteFile(f, c) ==
    /\ q = NoQuery
    /\ c # store[f].c
    /\ Len(pending[f]) < MaxPending
    /\ store' = [store EXCEPT ![f] = [exists |-> TRUE, mtime |-> NextMtime(f), c |-> c]]
    /\ pending' = [pending EXCEPT ![f] = Append(@, "changed")]
    /\ UNCHANGED <<indexVars, isBuilding, q, cacheVars, calls, handlers, parsedOnce, tagVars, searchVars>>

\* a file is deleted
DeleteFile(f) ==
    /\ q = NoQuery
    /\ store[f].exists
    /\ Len(pending[f]) < MaxPending
    /\ store' = [store EXCEPT ![f] = Gone]
    /\ pending' = [pending EXCEPT ![f] = Append(@, "removed")]
    /\ parsedOnce' = [parsedOnce EXCEPT ![f] = FALSE]
    /\ handlers' = [handlers EXCEPT ![f] = MarkStale(@, f)]
    /\ calls' = [p \in Callers |-> MarkStale(calls[p], f)]
    /\ UNCHANGED <<indexVars, isBuilding, q, cacheVars, tagVars, searchVars>>

\* a 'changed' notification is taken up: updateFile is called and getFileInfo answers
StartUpdate(f) ==
    /\ q = NoQuery
    /\ NoBuild
    /\ handlers[f] = Idle
    /\ pending[f] # <<>>
    /\ Head(pending[f]) = "changed"
    /\ pending' = [pending EXCEPT ![f] = Tail(@)]
    /\ handlers' = [handlers EXCEPT ![f] =
                       [pc |-> "stat", info |-> store[f], c |-> "none", stale |-> FALSE]]
    /\ UNCHANGED <<indexVars, isBuilding, q, cacheVars, store, calls, parsedOnce, tagVars, searchVars>>

\* updateFile after getFileInfo: remove, skip, or call indexFile, which reads the file
UpdateDecide(f) ==
    /\ q = NoQuery
    /\ handlers[f].pc = "stat"
    /\ LET info == handlers[f].info
       IN IF ~info.exists
          THEN /\ SetIndex(RemoveFile(Index, f))
               /\ handlers' = [handlers EXCEPT ![f] = Idle]
               /\ q' = [op |-> "updateFile", id |-> f, ret |-> "removed"]
          ELSE IF NotModified(Index, f, info.mtime)
          THEN /\ handlers' = [handlers EXCEPT ![f] = Idle]
               /\ q' = [op |-> "updateFile", id |-> f, ret |-> "skipped"]
               /\ UNCHANGED indexVars
          ELSE IF ~store[f].exists
          THEN /\ handlers' = [handlers EXCEPT ![f] = Idle]
               /\ q' = [op |-> "updateFile", id |-> f, ret |-> "failed"]
               /\ UNCHANGED indexVars
          ELSE /\ handlers' = [handlers EXCEPT ![f] = [@ EXCEPT !.pc = "read", !.c = store[f].c]]
               /\ UNCHANGED <<indexVars, q>>
    /\ UNCHANGED <<isBuilding, cacheVars, store, calls, pending, parsedOnce, tagVars, searchVars>>

\* indexFile parses what it read and updates the three structures
UpdateApply(f) ==
    /\ q = NoQuery
    /\ handlers[f].pc = "read"
    /\ SetIndex(IndexFile(Index, f, handlers[f].info.mtime, handlers[f].c))
    /\ parsedOnce' = [parsedOnce EXCEPT
                         ![f] = @ \/ (ContentOf(handlers[f].c).ok /\ ~handlers[f].stale)]
    /\ handlers' = [handlers EXCEPT ![f] = Idle]
    /\ q' = [op |-> "updateFile", id |-> f,
             ret |-> IF ContentOf(handlers[f].c).ok THEN "indexed" ELSE "failed",
             old |-> IF Has(files, f) THEN <<files[f]>> ELSE <<>>]
    /\ UNCHANGED <<isBuilding, cacheVars, store, calls, pending, tagVars, searchVars>>

\* a 'removed' notification is taken up: removeFile
RemoveNotified(f) ==
    /\ q = NoQuery
    /\ NoBuild
    /\ handlers[f] = Idle
    /\ pending[f] # <<>>
    /\ Head(pending[f]) = "removed"
    /\ pending' = [pending EXCEPT ![f] = Tail(@)]
    /\ SetIndex(RemoveFile(Index, f))
    /\ q' = [op |-> "removeFile", id |-> f,
             ret |-> IF Has(files, f) THEN "removed" ELSE "absent"]
    /\ UNCHANGED <<isBuilding, cacheVars, store, calls, handlers, parsedOnce, tagVars, searchVars>>

NextNotify ==
    \/ \E f \in NotifyDocs : \E c \in DocContents(f) : WriteFile(f, c)
    \/ \E f \in NotifyDocs : DeleteFile(f)
    \/ \E f \in NotifyDocs : StartUpdate(f)
    \/ \E f \in NotifyDocs : UpdateDecide(f)
    \/ \E f \in NotifyDocs : UpdateApply(f)
    \/ \E f \in NotifyDocs : RemoveNotified(f)
    \/ \E p \in NotifyCallers : RebuildIndex(p)
    \/ \E p \in NotifyCallers : BuildRead(p)
    \/ \E p \in NotifyCallers : BuildApply(p)
    \/ \E p \in NotifyCallers : BuildFinish(p)
    \/ Return

SpecNotify == InitNotify /\ [][NextNotify]_vars

\* the tags under which the Tag Index lists f
Memberships(f) == {t \in DOMAIN tags : f \in tags[t].files}

\* the outgoing links the Link Index holds for f
OutgoingOf(f) ==
    IF Has(backlinks, NormalizePath(f)) THEN backlinks[NormalizePath(f)].outgoing ELSE <<>>

\* the incoming entries whose source is f, each with the path that holds it
IncomingFrom(f) ==
    UNION {{<<k, e.line>> : e \in {x \in Range(backlinks[k].incoming) :
                                      x.target = NormalizePath(f)}} : k \in DOMAIN backlinks}

\* the incoming entries the links of one version of f ask for
ReciprocalsOf(f, links) ==
    {<<ResolveTargetPath(links[i].target, NormalizePath(f)), links[i].line>> :
        i \in 1..Len(links)}

\* C5: in every state a reader can find, the tag memberships and the link
\* entries of a document are those of one and the same version, the version of
\* its record, and a document with no record has neither.
ReplacementIsAtomic ==
    \A f \in Docs :
        IF Has(files, f)
        THEN /\ Memberships(f) = Range(NormalizeTags(files[f].tags))
             /\ OutgoingOf(f) = files[f].links
             /\ IncomingFrom(f) \subseteq ReciprocalsOf(f, files[f].links)
        ELSE /\ Memberships(f) = {}
             /\ OutgoingOf(f) = <<>>
             /\ IncomingFrom(f) = {}

\* a document with a record has just been re-indexed from a version with other
\* tags and other links
ReindexedWithNewTagsAndLinks ==
    /\ q.op = "updateFile"
    /\ q.ret = "indexed"
    /\ q.old # <<>>
    /\ Range(NormalizeTags(q.old[1].tags)) # Range(NormalizeTags(files[q.id].tags))
    /\ q.old[1].links # files[q.id].links

\* C6: once the notifications of a file have all been processed and no build
\* is in progress, the file has a record if and only if it exists and has been
\* parsed successfully at least once.
RecordIffFileParsed ==
    \A f \in Docs :
        (pending[f] = <<>> /\ handlers[f] = Idle /\ NoBuild) =>
            (Has(files, f) <=> (store[f].exists /\ parsedOnce[f]))

-----------------------------------------------------------------------------
(* The Tag Index with its co-occurrence counts under updateFile and        *)
(* removeFile.  The counts only grow; they are followed up to MaxCount.    *)

\* every count is within the bound
CountsWithin(co) == \A t \in DOMAIN co : \A u \in DOMAIN co[t] : co[t][u] <= MaxCount

\* what a reader can see of the Document Index, the Tag Index and the Link Index
Snapshot ==
    [files |-> files, tags |-> tags, coOccurring |-> coOccurring, backlinks |-> backlinks]

\* updateFile(filePath), run to completion, with the co-occurrence counts
CountedUpdateFile(f, info) ==
    /\ q = NoQuery
    /\ CountsWithin(UpdateFileCounts(coOccurring, Index, f, info))
    /\ SetIndex(UpdateFileResult(Index, f, info))
    /\ coOccurring' = UpdateFileCounts(coOccurring, Index, f, info)
    /\ q' = [op |-> "updateFile", id |-> f, info |-> info, before |-> Snapshot]
    /\ UNCHANGED <<isBuilding, cacheVars, asyncVars, searchVars>>

\* removeFile(filePath), run to completion: the counts stay
CountedRemoveFile(f) ==
    /\ q = NoQuery
    /\ SetIndex(RemoveFile(Index, f))
    /\ q' = [op |-> "removeFile", id |-> f, before |-> Snapshot]
    /\ UNCHANGED <<isBuilding, cacheVars, asyncVars, tagVars, searchVars>>

NextTags ==
    \/ \E f \in Docs : \E info \in FileInfos(f) : CountedUpdateFile(f, info)
    \/ \E f \in Docs : CountedRemoveFile(f)
    \/ Return

SpecTags == Init /\ [][NextTags]_vars

\* C13: updateFile on a document whose stored last-modified timestamp is not
\* before the modification time of its file leaves the Document Record, the
\* Tag Index with its co-occurrence counts, and the Link Index as they were.
UnchangedFileChangesNothing ==
    (/\ q.op = "updateFile"
     /\ q.info.exists
     /\ Has(q.before.files, q.id)
     /\ q.before.files[q.id].lastModified >= q.info.mtime) => Snapshot = q.before

\* updateFile has been called for a document with two tags that is indexed
\* and whose file is as old as its record, with another content
UnchangedFileUpdated ==
    /\ q.op = "updateFile"
    /\ q.info.exists
    /\ Has(q.before.files, q.id)
    /\ q.before.files[q.id].lastModified >= q.info.mtime
    /\ Len(NormalizeTags(q.before.files[q.id].tags)) >= 2
    /\ ContentOf(q.info.c).ok
    /\ q.info.c # q.before.files[q.id].hash

\* C14: after removeFile(A) the document A is in the file set of no tag, is the
\* source of no incoming entry and has no Document Record; removeFile on a
\* document without a record changes nothing.
RemovedLeavesNoTrace ==
    q.op = "removeFile" =>
        /\ ~Has(files, q.id)
        /\ Memberships(q.id) = {}
        /\ IncomingFrom(q.id) = {}
        /\ OutgoingOf(q.id) = <<>>
        /\ ~Has(q.before.files, q.id) => Snapshot = q.before

\* a document that carried tags and links has been removed
TaggedLinkedRemoved ==
    /\ q.op = "removeFile"
    /\ Has(q.before.files, q.id)
    /\ q.before.files[q.id].tags # <<>>
    /\ q.before.files[q.id].links # <<>>
    /\ \E g \in DOMAIN files : g # q.id

\* updateFile has stored a new version of the document q.id
JustIndexed ==
    /\ q.op = "updateFile"
    /\ q.info.exists
    /\ ~(Has(q.before.files, q.id) /\ q.before.files[q.id].lastModified >= q.info.mtime)
    /\ ContentOf(q.info.c).ok

-----------------------------------------------------------------------------
(* SearchEngine.  An IndexedFile handed to the engine is                   *)
(* [relativePath, plainText, title, tags, embeddings, days]: plainText a   *)
(* sequence of words, title a word or "", embeddings the cosine similarity *)
(* of each chunk embedding to the embedding of the query, days the age of  *)
(* lastModified in days when the query runs.  A query text is the sequence *)
(* of its terms, <<>> for a text that trims to nothing.  No word contains  *)
(* another, so includes and indexOf are equality on lower-cased words, and *)
(* every word includes the empty term.  Scores are exact fractions.        *)

\* the defaults of the search configuration
MaxResults == 100
SimilarityThreshold == <<7, 10>>
RankingWeights ==
    [semantic |-> <<2, 5>>, tags |-> <<3, 10>>, recency |-> <<1, 5>>, backlinks |-> <<1, 10>>]

\* pageRankCacheTTL, in ticks of the clock
PageRankCacheTTL == 1

\* x >= y
RGeq(x, y) == x[1] * y[2] >= y[1] * x[2]

\* Math.min(x, 1.0)
CapAtOne(x) == IF RGeq(x, <<1, 1>>) THEN <<1, 1>> ELSE x

\* text.toLowerCase().includes(term)
Includes(text, term) == term = "" \/ Lower(text) = Lower(term)

\* findTermMatches(term, text, type).length, text a sequence of words
CountTermMatches(term, text) ==
    Cardinality({i \in 1..Len(text) : Lower(text[i]) = Lower(term)})

\* how many i in 1..n satisfy count[i], summed: the sum of count[1..n]
RECURSIVE SumTo(_, _)
SumTo(count, n) == IF n = 0 THEN 0 ELSE count[n] + SumTo(count, n - 1)

\* sort((a, b) => b.score - a.score), which is stable
RECURSIVE SortByScore(_)
SortByScore(results) ==
    IF results = <<>> THEN <<>>
    ELSE LET sorted == SortByScore(SubSeq(results, 1, Len(results) - 1))
             r == results[Len(results)]
             k == Cardinality({i \in 1..Len(sorted) : RGeq(sorted[i].score, r.score)})
         IN SubSeq(sorted, 1, k) \o <<r>> \o SubSeq(sorted, k + 1, Len(sorted))

\* slice(0, limit || this._maxResults)
SliceTo(results, limit) ==
    LET n == IF limit = <<>> \/ limit = <<0>> THEN MaxResults ELSE limit[1]
    IN SubSeq(results, 1, IF n < Len(results) THEN n ELSE Len(results))

\* Math.max over the chunk similarities, from bestScore = 0
RECURSIVE BestScore(_)
BestScore(embeddings) ==
    IF embeddings = <<>> THEN <<0, 1>>
    ELSE LET rest == BestScore(Tail(embeddings))
         IN IF RGeq(Head(embeddings), rest) THEN Head(embeddings) ELSE rest

\* semanticSearch that answers with nothing instead of raising
SemanticSearchSilent(provider, searchFiles, limit, embedOk) == [error |-> FALSE, ret |-> <<>>]

\* semanticSearch(query, files, limit): embedOk tells whether the provider's
\* embed answers.  error is the SearchEngineError raised instead of a result.
SemanticSearch(provider, searchFiles, limit, embedOk) ==
    IF ~provider \/ ~embedOk THEN [error |-> TRUE, ret |-> <<>>]
    ELSE LET scored == [i \in 1..Len(searchFiles) |->
                           [file |-> searchFiles[i],
                            score |-> BestScore(searchFiles[i].embeddings),
                            semantic |-> BestScore(searchFiles[i].embeddings)]]
             kept == {r \in Range(scored) :
                         /\ r.file.embeddings # <<>>
                         /\ RGeq(r.score, SimilarityThreshold)}
         IN [error |-> FALSE,
             ret |-> SliceTo(SortByScore(SelectSeqBy(scored, kept)), limit)]

\* textSearch(query, files), query with at least one term
TextSearch(terms, searchFiles) ==
    LET total(file) ==
            SumTo([j \in 1..Len(terms) |->
                      CountTermMatches(terms[j], file.plainText) * 1
                      + CountTermMatches(terms[j], <<file.title>>) * 3
                      + Cardinality({k \in 1..Len(file.tags) :
                                        Includes(file.tags[k], terms[j])}) * 2],
                  Len(terms))
        scored == [i \in 1..Len(searchFiles) |->
                      [file |-> searchFiles[i],
                       score |-> CapAtOne(Rat(total(searchFiles[i]), Len(terms))),
                       semantic |-> <<0, 1>>]]
        kept == {r \in Range(scored) : total(r.file) > 0}
    IN SliceTo(SortByScore(SelectSeqBy(scored, kept)), <<>>)

\* calculateTagScore(file, query): terms is query.split(/\s+/), <<"">> for ''
CalculateTagScore(file, terms) ==
    IF file.tags = <<>> THEN <<0, 1>>
    ELSE CapAtOne(Rat(SumTo([j \in 1..Len(terms) |->
                                Cardinality({k \in 1..Len(file.tags) :
                                                Includes(file.tags[k], terms[j])})],
                            Len(terms)),
                      Len(terms)))

\* calculateRecencyScore(file, now)
CalculateRecencyScore(file) ==
    IF file.days >= 365 THEN <<0, 1>> ELSE Rat(365 - file.days, 365)

\* calculateRelevance(file, query, pageRanks, now); calculateSemanticScore is 0
CalculateRelevance(file, terms, pageRanks) ==
    [semantic |-> <<0, 1>>,
     tags |-> CalculateTagScore(file, terms),
     recency |-> CalculateRecencyScore(file),
     backlinks |-> IF Has(pageRanks, file.relativePath)
                   THEN pageRanks[file.relativePath] ELSE <<0, 1>>]

CalculateFinalScore(relevance) ==
    RAdd(RAdd(RMul(relevance.semantic, RankingWeights.semantic),
              RMul(relevance.tags, RankingWeights.tags)),
         RAdd(RMul(relevance.recency, RankingWeights.recency),
              RMul(relevance.backlinks, RankingWeights.backlinks)))

\* searchQuery.threshold || this._similarityThreshold
ThresholdOr(threshold) ==
    IF threshold = <<>> \/ threshold[1][1] = 0 THEN SimilarityThreshold ELSE threshold[1]

\* scoreAndRankFiles(files, query, searchQuery).  With the empty term
\* extractMatches does not come back: indexOf('', index) is never -1 and
\* index does not advance, so a file that passes the threshold hangs the call.
ScoreAndRankFiles(candidates, terms, threshold, pageRanks) ==
    LET scored == [i \in 1..Len(candidates) |->
                      [file |-> candidates[i],
                       score |-> CalculateFinalScore(
                                     CalculateRelevance(candidates[i], terms, pageRanks)),
                       relevance |-> CalculateRelevance(candidates[i], terms, pageRanks)]]
        kept == {r \in Range(scored) : RGeq(r.score, ThresholdOr(threshold))}
    IN [hangs |-> "" \in Range(terms) /\ kept # {},
        ret |-> SortByScore(SelectSeqBy(scored, kept))]

\* combineSearchResults: the files of the text results, then the files only
\* the semantic results hold; the merged semantic score is not handed on
CombineSearchResults(textResults, semanticResults) ==
    LET textFiles == [i \in 1..Len(textResults) |-> textResults[i].file]
        semanticFiles == [i \in 1..Len(semanticResults) |-> semanticResults[i].file]
    IN textFiles \o SelectSeqBy(semanticFiles, Range(semanticFiles) \ Range(textFiles))

\* what semantic search hands to performHybridSearch
HybridSemanticResults(provider, searchFiles, embedOk) ==
    IF provider THEN SemanticSearch(provider, searchFiles, <<>>, embedOk).ret ELSE <<>>

\* search(query, files) without filters
SearchResult(provider, searchFiles, text, limit, threshold, embedOk, pageRanks) ==
    IF searchFiles = <<>> THEN [hangs |-> FALSE, ret |-> <<>>]
    ELSE IF text = <<>> THEN ScoreAndRankFiles(searchFiles, <<"">>, threshold, pageRanks)
    ELSE LET ranked == ScoreAndRankFiles(
                 CombineSearchResults(TextSearch(text, searchFiles),
                     HybridSemanticResults(provider, searchFiles, embedOk)),
                 text, threshold, pageRanks)
         IN [hangs |-> ranked.hangs, ret |-> SliceTo(ranked.ret, limit)]

\* a cache that never expires
CacheNeverExpires == pageRankCache # <<>>

\* getPageRanks(); calculatePageRank() runs 20 iterations with damping 0.85
CacheIsFresh == pageRankCache # <<>> /\ now - pageRankCacheTime < PageRankCacheTTL

GetPageRanks ==
    IF CacheIsFresh THEN pageRankCache[1]
    ELSE CalculatePageRank(backlinks, 20, <<17, 20>>)

-----------------------------------------------------------------------------
(* Searches over the files a caller hands in: search and semanticSearch    *)

\* the files a caller may hand in
FileA(embeddings, days) ==
    [relativePath |-> DocA, plainText |-> <<"alpha", "beta", "alpha">>, title |-> "",
     tags |-> <<"T1">>, embeddings |-> embeddings, days |-> days]
FileB(embeddings) ==
    [relativePath |-> DocB, plainText |-> <<"gamma">>, title |-> "beta",
     tags |-> <<>>, embeddings |-> embeddings, days |-> 73]
FileC(embeddings) ==
    [relativePath |-> DocC, plainText |-> <<"gamma">>, title |-> "",
     tags |-> <<"t1", "t2">>, embeddings |-> embeddings, days |-> 0]

SearchFileLists ==
    {<<>>}
    \cup {<<FileA(e, d)>> : e \in {<<>>, <<<<1, 2>>, <<4, 5>>>>}, d \in {0, 400}}
    \cup {<<FileA(ea, 0), FileB(eb), FileC(ec)>> :
             ea \in {<<>>, <<<<1, 2>>, <<4, 5>>>>},
             eb \in {<<>>, <<<<9, 10>>>>},
             ec \in {<<>>, <<<<3, 4>>>>}}

QueryTexts == {<<>>, <<"alpha">>, <<"beta", "t1">>}
Limits == {<<>>, <<1>>}
Thresholds == {<<>>, <<<<0, 1>>>>, <<<<1, 5>>>>, <<<<1, 1>>>>}

\* a PageRank map an earlier search may have cached
CachedRanks ==
    (DocA :> <<1, 3>>) @@ (DocB :> <<1, 20>>) @@ (<<"sub", "c.md">> :> <<1, 20>>)

InitSearch ==
    /\ InitIndex(NoFiles)
    /\ embeddingProvider \in BOOLEAN
    /\ pageRankCache \in {<<>>, <<CachedRanks>>}
    /\ pageRankCacheTime = 0

\* search(query, files), to its end
Search(searchFiles, text, limit, threshold, embedOk) ==
    /\ q = NoQuery
    /\ q' = [op |-> "search", files |-> searchFiles, text |-> text, limit |-> limit,
             threshold |-> threshold, pageRanks |-> GetPageRanks,
             cached |-> [map |-> pageRankCache, time |-> pageRankCacheTime],
             semantic |-> HybridSemanticResults(embeddingProvider, searchFiles, embedOk),
             result |-> SearchResult(embeddingProvider, searchFiles, text, limit,
                                     threshold, embedOk, GetPageRanks)]
    /\ IF searchFiles = <<>> \/ CacheIsFresh
       THEN UNCHANGED <<pageRankCache, pageRankCacheTime>>
       ELSE /\ pageRankCache' = <<GetPageRanks>>
            /\ pageRankCacheTime' = now
    /\ UNCHANGED <<indexVars, isBuilding, cacheVars, asyncVars, tagVars, embeddingProvider>>

\* semanticSearch(query, files, limit), to its end
SemanticSearchCall(searchFiles, limit, embedOk) ==
    /\ q = NoQuery
    /\ q' = [op |-> "semanticSearch", files |-> searchFiles,
             result |-> SemanticSearch(embeddingProvider, searchFiles, limit, embedOk)]
    /\ UNCHANGED <<indexVars, isBuilding, cacheVars, asyncVars, tagVars, searchVars>>

\* updateConfiguration(config) with a config that sets no field: the limits
\* and weights of the engine stay the configured defaults
UpdateConfiguration ==
    /\ q = NoQuery
    /\ pageRankCache' = <<>>
    /\ pageRankCacheTime' = 0
    /\ q' = [op |-> "updateConfiguration"]
    /\ UNCHANGED <<indexVars, isBuilding, cacheVars, asyncVars, tagVars, embeddingProvider>>

\* a.md as it is when its only link points to itself
SelfLinked == [exists |-> TRUE, mtime |-> 1, c |-> "c2"]

\* time passes
SearchTick ==
    /\ q = NoQuery
    /\ now < MaxNow
    /\ now' = now + 1
    /\ UNCHANGED <<indexVars, isBuilding, q, cache, recency, asyncVars, tagVars, searchVars>>

NextSearch ==
    \/ \E searchFiles \in SearchFileLists, text \in QueryTexts, limit \in Limits,
          threshold \in Thresholds, embedOk \in BOOLEAN :
          Search(searchFiles, text, limit, threshold, embedOk)
    \/ \E searchFiles \in SearchFileLists, limit \in Limits, embedOk \in BOOLEAN :
          SemanticSearchCall(searchFiles, limit, embedOk)
    \/ UpdateConfiguration
    \/ UpdateFile(DocA, SelfLinked)
    \/ SearchTick
    \/ Return

SpecSearch == InitSearch /\ [][NextSearch]_vars

\* the similarity semantic search returned for the file, 0 when it returned none
SemanticOf(file) ==
    IF \E i \in 1..Len(q.semantic) : q.semantic[i].file = file
    THEN q.semantic[CHOOSE i \in 1..Len(q.semantic) : q.semantic[i].file = file].semantic
    ELSE <<0, 1>>

\* the weighted sum of the four signals of a returned document
WeightedScore(r) ==
    RAdd(RAdd(RMul(SemanticOf(r.file), RankingWeights.semantic),
              RMul(r.relevance.tags, RankingWeights.tags)),
         RAdd(RMul(r.relevance.recency, RankingWeights.recency),
              RMul(r.relevance.backlinks, RankingWeights.backlinks)))

\* C18: in hybrid search the final score of every returned document is the
\* weighted sum of its semantic similarity, tag overlap, recency and PageRank,
\* the semantic similarity being the one semantic search returned for it.
FinalScoreIsWeightedSum ==
    (q.op = "search" /\ q.text # <<>>) =>
        \A i \in 1..Len(q.result.ret) :
            q.result.ret[i].score = WeightedScore(q.result.ret[i])

\* the candidates of a search and their final scores
Candidates ==
    IF q.text = <<>> THEN q.files
    ELSE CombineSearchResults(TextSearch(q.text, q.files), q.semantic)

FinalScoreOf(file) ==
    CalculateFinalScore(CalculateRelevance(file, IF q.text = <<>> THEN <<"">> ELSE q.text,
                                           q.pageRanks))

Returned == {q.result.ret[i].file : i \in 1..Len(q.result.ret)}

\* C19: a search with a supplied threshold returns no candidate whose final
\* score is below it and, unless the limit cut the list, every candidate
\* whose final score is at or above it.
SuppliedThresholdDecides ==
    (q.op = "search" /\ q.threshold # <<>> /\ ~q.result.hangs) =>
        /\ \A f \in Returned : f \in Range(Candidates) /\ RGeq(FinalScoreOf(f), q.threshold[1])
        /\ \A f \in Range(Candidates) :
               RGeq(FinalScoreOf(f), q.threshold[1]) =>
                   \/ f \in Returned
                   \/ q.limit # <<>> /\ Len(q.result.ret) = q.limit[1]

\* C20: without an embedding provider semanticSearch raises an error and
\* returns no result list.
NoProviderIsAnError ==
    (q.op = "semanticSearch" /\ ~embeddingProvider) => q.result.error

SemanticSearchWithoutProvider ==
    /\ q.op = "semanticSearch"
    /\ ~embeddingProvider
    /\ \E i \in 1..Len(q.files) : q.files[i].embeddings # <<>>

-----------------------------------------------------------------------------
(* Batches, with no other build in progress *)

\* C21: after buildInitialIndex or reindexAll every listed document that
\* parses has its record, with the listed content, also when other listed
\* documents failed to parse; the operation returns (q holds its result).
BatchSurvivesFailure ==
    q.op \in {"buildInitialIndex", "reindexAll"} =>
        \A i \in 1..Len(DocList) :
            (q.listing[i].exists /\ ContentOf(q.listing[i].c).ok) =>
                /\ Has(files, DocList[i])
                /\ files[DocList[i]].hash = q.listing[i].c
                /\ files[DocList[i]].tags = ContentOf(q.listing[i].c).tags

FailureBeforeParsedFile ==
    /\ q.op \in {"buildInitialIndex", "reindexAll"}
    /\ \E i, j \in 1..Len(DocList) :
           /\ i < j
           /\ q.listing[i].exists /\ ~ContentOf(q.listing[i].c).ok
           /\ q.listing[j].exists /\ ContentOf(q.listing[j].c).ok

-----------------------------------------------------------------------------
(* The PageRank cache of the Search Engine *)

\* the PageRank map of the Link Index as it is
ComputedNow == CalculatePageRank(backlinks, 20, <<17, 20>>)

-----------------------------------------------------------------------------
(* TagEngine.getTagSuggestions, on a TagEngine driven by updateFileTags.    *)
(* The tags of this part are t1, t2, p and its child p/c.                  *)

\* the tags in sorted order
TagOrder == <<"p", "p/c", "t1", "t2">>

\* getTagHierarchy: normalizedTag.split('/')
GetTagHierarchy(tagName) ==
    IF NormalizeTag(tagName) = "p/c" THEN <<"p", "c">> ELSE <<NormalizeTag(tagName)>>

\* hierarchy.slice(0, i).join('/')
JoinHierarchy(parts) == CHOOSE t \in Range(TagOrder) : GetTagHierarchy(t) = parts

GetParentTags(childTag) ==
    [i \in 1..(Len(GetTagHierarchy(childTag)) - 1) |->
        JoinHierarchy(SubSeq(GetTagHierarchy(childTag), 1, i))]

\* getChildTags: the direct children among the tags held, sorted
GetChildTags(tg, parentTag) ==
    SelectSeqBy(TagOrder,
        {tag \in DOMAIN tg :
            /\ Len(GetTagHierarchy(tag)) = Len(GetTagHierarchy(parentTag)) + 1
            /\ SubSeq(GetTagHierarchy(tag), 1, Len(GetTagHierarchy(parentTag)))
                   = GetTagHierarchy(parentTag)})

\* a suggestion; the score is kept as a fraction over 1
Suggestion(tag, score, reason) == [tag |-> tag, score |-> <<score, 1>>, reason |-> reason]

\* getCoOccurringTags(tagName) as suggestions; tags of equal count are taken
\* in sorted order
GetCoOccurringTags(co, tagName) ==
    IF ~Has(co, NormalizeTag(tagName)) THEN <<>>
    ELSE LET mine == co[NormalizeTag(tagName)]
             held == SelectSeqBy(TagOrder, DOMAIN mine)
         IN SliceTo(SortByScore([i \in 1..Len(held) |->
                                    Suggestion(held[i], mine[held[i]], "co_occurrence")]),
                    <<10>>)

RECURSIVE CoOccurrenceSuggestions(_, _, _)
CoOccurrenceSuggestions(co, normalizedExisting, i) ==
    IF i > Len(normalizedExisting) THEN <<>>
    ELSE LET found == GetCoOccurringTags(co, normalizedExisting[i])
         IN SelectSeqBy(found, {x \in Range(found) : x.tag \notin Range(normalizedExisting)})
            \o CoOccurrenceSuggestions(co, normalizedExisting, i + 1)

RECURSIVE GetHierarchicalSuggestions(_, _, _)
GetHierarchicalSuggestions(tg, existingTags, i) ==
    IF i > Len(existingTags) THEN <<>>
    ELSE LET parents == GetParentTags(existingTags[i])
             children == GetChildTags(tg, existingTags[i])
         IN [k \in 1..Len(SelectSeqBy(parents, DOMAIN tg)) |->
                Suggestion(SelectSeqBy(parents, DOMAIN tg)[k], 5, "hierarchy")]
            \o [k \in 1..Len(children) |-> Suggestion(children[k], 3, "hierarchy")]
            \o GetHierarchicalSuggestions(tg, existingTags, i + 1)

GetTagSuggestions(tg, co, existingTags) ==
    SliceTo(SortByScore(CoOccurrenceSuggestions(co, NormalizeTags(existingTags), 1)
                        \o GetHierarchicalSuggestions(tg, existingTags, 1)),
            <<10>>)

\* the tag lists files are given and the lists suggestions are asked for
TagLists == {<<"p/c", "t1">>, <<"p">>, <<"t1", "t2">>, <<"p/c", "t2", "t1">>}
ExistingTagLists == {<<"p/c">>, <<"p">>, <<"t1">>, <<"p/c", "t2">>}

\* updateFileTags(filePath, newTags) on the TagEngine
TagEngineUpdateFileTags(filePath, newTags) ==
    /\ q = NoQuery
    /\ CountsWithin(UpdateFileCoOccurring(coOccurring, newTags))
    /\ tags' = UpdateFileTags(tags, filePath, newTags)
    /\ coOccurring' = UpdateFileCoOccurring(coOccurring, newTags)
    /\ q' = [op |-> "updateFileTags", id |-> filePath]
    /\ UNCHANGED <<files, backlinks, fileExists, isBuilding, cacheVars, asyncVars, searchVars>>

\* getTagSuggestions(existingTags)
Suggest(existingTags) ==
    /\ q = NoQuery
    /\ q' = [op |-> "suggest", existing |-> existingTags,
             ret |-> GetTagSuggestions(tags, coOccurring, existingTags)]
    /\ UNCHANGED <<indexVars, isBuilding, cacheVars, asyncVars, tagVars, searchVars>>

NextSuggest ==
    \/ \E f \in Docs, newTags \in TagLists : TagEngineUpdateFileTags(f, newTags)
    \/ \E existingTags \in ExistingTagLists : Suggest(existingTags)
    \/ Return

SpecSuggest == Init /\ [][NextSuggest]_vars

\* the tags co-occurrence produced in the suggestions returned
ByCoOccurrence == {q.ret[i].tag : i \in {k \in 1..Len(q.ret) : q.ret[k].reason = "co_occurrence"}}

\* C23: in the list suggest returns, every candidate produced by
\* co-occurrence comes before every candidate produced by hierarchy only.
CoOccurrenceBeforeHierarchy ==
    q.op = "suggest" =>
        \A i, j \in 1..Len(q.ret) :
            (/\ q.ret[i].reason = "co_occurrence"
             /\ q.ret[j].reason = "hierarchy"
             /\ q.ret[j].tag \notin ByCoOccurrence) => i < j

-----------------------------------------------------------------------------
(* GraphAnalyzer.  The files handed to it are [relativePath, links], links *)
(* the raw targets in order.  A graph is [nodes, edges]: the node ids in    *)
(* the order they were added and the edges <<source, target>> in order.    *)
(* An adjacency maps a node to its neighbours in Map insertion order; all  *)
(* weights are 1.                                                          *)

\* the node ids in the order buildGraph meets them
RECURSIVE NodeMentions(_)
NodeMentions(graphFiles) ==
    IF graphFiles = <<>> THEN <<>>
    ELSE <<Head(graphFiles).relativePath>> \o Head(graphFiles).links
         \o NodeMentions(Tail(graphFiles))

RECURSIVE LinkEdges(_)
LinkEdges(graphFiles) ==
    IF graphFiles = <<>> THEN <<>>
    ELSE [i \in 1..Len(Head(graphFiles).links) |->
             <<Head(graphFiles).relativePath, Head(graphFiles).links[i]>>]
         \o LinkEdges(Tail(graphFiles))

\* buildGraph(files, false): the node of a link is its raw target
BuildGraph(graphFiles) ==
    [nodes |-> Dedup(NodeMentions(graphFiles)), edges |-> LinkEdges(graphFiles)]

\* the ends the edges give to node, in edge order
RECURSIVE OtherEnds(_, _)
OtherEnds(node, edges) ==
    IF edges = <<>> THEN <<>>
    ELSE (IF Head(edges)[1] = node THEN <<Head(edges)[2]>> ELSE <<>>)
         \o (IF Head(edges)[2] = node THEN <<Head(edges)[1]>> ELSE <<>>)
         \o OtherEnds(node, Tail(edges))

BuildAdjacencyMatrix(graph) ==
    [node \in Range(graph.nodes) |-> Dedup(OtherEnds(node, graph.edges))]

\* breadth-first distances from the nodes already reached; -1 is not reached
RECURSIVE BfsDistances(_, _, _)
BfsDistances(adjacency, distance, d) ==
    LET reached == {n \in DOMAIN adjacency :
                       /\ distance[n] = -1
                       /\ \E m \in Range(adjacency[n]) : distance[m] = d}
    IN IF reached = {} THEN distance
       ELSE BfsDistances(adjacency,
                [n \in DOMAIN adjacency |-> IF n \in reached THEN d + 1 ELSE distance[n]],
                d + 1)

\* the distances of the breadth-first search of calculateBetweennessCentrality,
\* and of dijkstra with -1 for Infinity
Distances(adjacency, source) ==
    BfsDistances(adjacency, [n \in DOMAIN adjacency |-> IF n = source THEN 0 ELSE -1], 0)

\* dependency.get(node) when node is popped: paths.get(current) holds the
\* neighbours of current one step nearer to the source
RECURSIVE Dependency(_, _, _)
Dependency(adjacency, distance, node) ==
    LET successors == {current \in Range(adjacency[node]) :
                          distance[current] = distance[node] + 1}
        RECURSIVE Sum(_)
        Sum(S) == IF S = {} THEN 0
                  ELSE LET current == CHOOSE x \in S : TRUE
                       IN 1 + Dependency(adjacency, distance, current) + Sum(S \ {current})
    IN Sum(successors)

\* what the loop over the sources adds to betweenness.get(node)
RECURSIVE SumDependencies(_, _, _)
SumDependencies(adjacency, node, sources) ==
    IF sources = {} THEN 0
    ELSE LET source == CHOOSE x \in sources : TRUE
             distance == Distances(adjacency, source)
         IN (IF source # node /\ distance[node] # -1
             THEN Dependency(adjacency, distance, node) ELSE 0)
            + SumDependencies(adjacency, node, sources \ {source})

CalculateBetweennessCentrality(adjacency) ==
    LET n == Cardinality(DOMAIN adjacency)
    IN [node \in DOMAIN adjacency |->
           IF n > 2
           THEN Rat(2 * SumDependencies(adjacency, node, DOMAIN adjacency), (n - 1) * (n - 2))
           ELSE Rat(SumDependencies(adjacency, node, DOMAIN adjacency), 1)]

\* the sum of all weights: twice totalEdges
TotalWeight(adjacency) == SumOver([n \in DOMAIN adjacency |-> <<Len(adjacency[n]), 1>>],
                                  DOMAIN adjacency)[1]

\* a modularity that leaves out the degree term: the number of neighbour
\* pairs in one community, scaled alike
ModularityWithoutDegrees(adjacency, communities) ==
    TotalWeight(adjacency)
    * Cardinality({x \in (DOMAIN adjacency) \X (DOMAIN adjacency) :
                      x[2] \in Range(adjacency[x[1]]) /\ communities[x[1]] = communities[x[2]]})

\* calculateModularity times (2 * totalEdges) squared: with T the total
\* weight, every pair of neighbours in one community adds T - degreeA * degreeB
ModularityTimes(adjacency, communities) ==
    LET T == TotalWeight(adjacency)
        pairs == {<<a, b>> \in (DOMAIN adjacency) \X (DOMAIN adjacency) :
                     b \in Range(adjacency[a]) /\ communities[a] = communities[b]}
        RECURSIVE Sum(_)
        Sum(S) == IF S = {} THEN 0
                  ELSE LET x == CHOOSE y \in S : TRUE
                       IN T - Len(adjacency[x[1]]) * Len(adjacency[x[2]]) + Sum(S \ {x})
    IN IF T = 0 THEN 0 ELSE Sum(pairs)

\* the loop over neighborCommunities: <<bestCommunity, bestGain>>
RECURSIVE BestMove(_, _, _, _, _, _)
BestMove(adjacency, communities, modularity, node, candidates, best) ==
    IF candidates = <<>> THEN best
    ELSE LET community == Head(candidates)
             gain == ModularityTimes(adjacency, [communities EXCEPT ![node] = community])
                     - modularity
         IN BestMove(adjacency, communities, modularity, node, Tail(candidates),
                     IF community # communities[node] /\ gain > best[2]
                     THEN <<community, gain>> ELSE best)

\* one pass of the for loop over the nodes, from node i on
RECURSIVE SweepNodes(_, _, _, _)
SweepNodes(adjacency, nodes, state, i) ==
    IF i > Len(nodes) THEN state
    ELSE LET node == nodes[i]
             neighborCommunities ==
                 Dedup([k \in 1..Len(adjacency[node]) |-> state.communities[adjacency[node][k]]])
             best == BestMove(adjacency, state.communities, state.modularity, node,
                              neighborCommunities, <<state.communities[node], 0>>)
         IN SweepNodes(adjacency, nodes,
                IF best[1] # state.communities[node]
                THEN [communities |-> [state.communities EXCEPT ![node] = best[1]],
                      modularity |-> state.modularity + best[2],
                      improved |-> TRUE]
                ELSE state,
                i + 1)

\* while (improved)
RECURSIVE ClusterLoop(_, _, _)
ClusterLoop(adjacency, nodes, state) ==
    LET swept == SweepNodes(adjacency, nodes, [state EXCEPT !.improved = FALSE], 1)
    IN IF swept.improved THEN ClusterLoop(adjacency, nodes, swept) ELSE swept

\* calculateClusterCohesion(nodeIds, adjacency)
CalculateClusterCohesion(nodeIds, adjacency) ==
    LET possible == {<<i, j>> \in (1..Len(nodeIds)) \X (1..Len(nodeIds)) : i < j}
        internal == {x \in possible : nodeIds[x[2]] \in Range(adjacency[nodeIds[x[1]]])}
    IN IF possible = {} THEN <<0, 1>> ELSE Rat(Cardinality(internal), Cardinality(possible))

\* detectClusters(graph, adjacency): the clusters in the order of their first node
DetectClusters(graph, adjacency) ==
    LET start == [communities |-> [n \in DOMAIN adjacency |->
                                      CHOOSE i \in 1..Len(graph.nodes) : graph.nodes[i] = n],
                  modularity |-> 0, improved |-> TRUE]
        final == ClusterLoop(adjacency, graph.nodes,
                     [start EXCEPT !.modularity = ModularityTimes(adjacency, start.communities)])
        ids == Dedup([i \in 1..Len(graph.nodes) |-> final.communities[graph.nodes[i]]])
    IN [k \in 1..Len(ids) |->
           LET nodeIds == SelectSeqBy(graph.nodes,
                              {n \in Range(graph.nodes) : final.communities[n] = ids[k]})
           IN [nodes |-> nodeIds, cohesion |-> CalculateClusterCohesion(nodeIds, adjacency)]]

\* the predecessor reconstructPath picks: distances.get(neighbor) || Infinity
\* makes the source (distance 0) and the unreached look infinitely far
BestPredecessor(adjacency, distance, source, current) ==
    LET near == SelectSeqBy(adjacency[current],
                    {n \in Range(adjacency[current]) : distance[n] > 0})
    IN IF near = <<>> THEN source
       ELSE near[CHOOSE i \in 1..Len(near) :
                    /\ \A j \in 1..Len(near) : distance[near[i]] <= distance[near[j]]
                    /\ \A j \in 1..(i - 1) : distance[near[j]] > distance[near[i]]]

\* reconstructPath(adjacency, source, target) from current on: the path, or
\* <<>> when the walk comes back to a node it left, which it then does forever
RECURSIVE ReconstructPath(_, _, _, _, _)
ReconstructPath(adjacency, distance, source, current, path) ==
    IF current = source THEN path
    ELSE LET predecessor == BestPredecessor(adjacency, distance, source, current)
         IN IF predecessor \in Range(path) THEN <<>>
            ELSE ReconstructPath(adjacency, distance, source, predecessor,
                                 <<predecessor>> \o path)

\* analyzePathStructure(graph, adjacency): nothing is returned when one
\* reconstructPath never ends
AnalyzePathStructure(adjacency) ==
    LET pairs == {x \in (DOMAIN adjacency) \X (DOMAIN adjacency) :
                     x[1] # x[2] /\ Distances(adjacency, x[1])[x[2]] > 0}
        length == [x \in pairs |-> Distances(adjacency, x[1])[x[2]]]
        hangs == \E x \in pairs :
                     ReconstructPath(adjacency, Distances(adjacency, x[1]),
                                     x[1], x[2], <<x[2]>>) = <<>>
    IN IF hangs THEN [hangs |-> TRUE, diameter |-> 0, averagePathLength |-> <<0, 1>>]
       ELSE [hangs |-> FALSE,
             diameter |-> IF pairs = {} THEN 0
                          ELSE CHOOSE d \in {length[x] : x \in pairs} :
                                   \A x \in pairs : length[x] <= d,
             averagePathLength |->
                 IF pairs = {} THEN <<0, 1>>
                 ELSE Rat(SumOver([x \in pairs |-> <<length[x], 1>>], pairs)[1],
                          Cardinality(pairs))]

(***************************************************************************)
(* The Graph Analyzer's operations over the files handed to them.  The     *)
(* file lists are all link graphs over four files, and, for community      *)
(* detection, two triangles joined by one link over six files, in every    *)
(* file order; a link is written in the earlier file of its two ends       *)
(* (forward) or in the later.                                              *)
(***************************************************************************)
SmallNodes == <<"a", "b", "c", "d">>

TriangleNodes == <<"a", "b", "c", "d", "e", "f">>

TriangleLinks == {{"a", "b"}, {"b", "c"}, {"a", "c"}, {"d", "e"}, {"e", "f"}, {"d", "f"}}

\* the algorithms see the order of the files and links, never their names:
\* one bridge in every file order stands for every bridge
Bridge == {"c", "d"}

FilesOf(order, links, forward) ==
    [i \in 1..Len(order) |->
        [relativePath |-> order[i],
         links |-> SelectSeqBy(order,
                       {order[j] : j \in {k \in 1..Len(order) :
                            /\ k # i
                            /\ {order[i], order[k]} \in links
                            /\ (k > i) = forward}})]]

Reordered(nodes, perm) == [i \in 1..Len(nodes) |-> nodes[perm[i]]]

SmallFileLists ==
    {FilesOf(SmallNodes, links, forward) :
        links \in SUBSET {{SmallNodes[i], SmallNodes[j]} : i, j \in 1..4} \ {{}},
        forward \in BOOLEAN}

\* the same files with the links of each in the opposite order
LinksReversed(graphFiles) ==
    [i \in 1..Len(graphFiles) |->
        [graphFiles[i] EXCEPT !.links =
            [k \in 1..Len(@) |-> graphFiles[i].links[Len(graphFiles[i].links) + 1 - k]]]]

BridgedTriangles ==
    LET lists == {FilesOf(Reordered(TriangleNodes, perm), TriangleLinks \cup {Bridge}, forward) :
                     perm \in Permutations(1..6), forward \in BOOLEAN}
    IN lists \cup {LinksReversed(l) : l \in lists}

GraphFileLists == SmallFileLists \cup BridgedTriangles

AdjacencyOf(graphFiles) == BuildAdjacencyMatrix(BuildGraph(graphFiles))

\* getInfluentialFiles(files, 'betweenness'): the score of every file; the
\* limit of 10 cuts nothing off these graphs
GetInfluentialFiles(graphFiles) ==
    /\ q = NoQuery
    /\ q' = [op |-> "getInfluentialFiles", files |-> graphFiles,
             ret |-> CalculateBetweennessCentrality(AdjacencyOf(graphFiles))]
    /\ UNCHANGED <<indexVars, isBuilding, cacheVars, asyncVars, tagVars, searchVars>>

\* findCommunities(files)
FindCommunities(graphFiles) ==
    /\ q = NoQuery
    /\ q' = [op |-> "findCommunities", files |-> graphFiles,
             ret |-> DetectClusters(BuildGraph(graphFiles), AdjacencyOf(graphFiles))]
    /\ UNCHANGED <<indexVars, isBuilding, cacheVars, asyncVars, tagVars, searchVars>>

\* analyzeGraph(files): centrality, clustering, then the path structure,
\* which has to return before analyzeGraph does
AnalyzeGraph(graphFiles) ==
    /\ q = NoQuery
    /\ q' = [op |-> "analyzeGraph", files |-> graphFiles,
             ret |-> AnalyzePathStructure(AdjacencyOf(graphFiles))]
    /\ UNCHANGED <<indexVars, isBuilding, cacheVars, asyncVars, tagVars, searchVars>>

NextGraph ==
    \/ \E graphFiles \in SmallFileLists : GetInfluentialFiles(graphFiles)
    \/ \E graphFiles \in GraphFileLists : FindCommunities(graphFiles)
    \/ \E graphFiles \in SmallFileLists : AnalyzeGraph(graphFiles)
    \/ Return

SpecGraph == Init /\ [][NextGraph]_vars

\* the number of shortest paths from source to target
RECURSIVE ShortestPathCount(_, _, _, _)
ShortestPathCount(adjacency, distance, source, target) ==
    IF target = source THEN 1
    ELSE LET before == {u \in Range(adjacency[target]) :
                           distance[u] = distance[target] - 1}
             RECURSIVE Sum(_)
             Sum(S) == IF S = {} THEN 0
                       ELSE LET u == CHOOSE x \in S : TRUE
                            IN ShortestPathCount(adjacency, distance, source, u)
                               + Sum(S \ {u})
         IN Sum(before)

\* the fraction of the shortest paths from s to t that pass through v
FractionThrough(adjacency, s, t, v) ==
    LET fromS == Distances(adjacency, s)
        fromV == Distances(adjacency, v)
    IN IF fromS[t] = -1 \/ fromS[v] = -1 \/ fromS[v] + fromV[t] # fromS[t]
       THEN <<0, 1>>
       ELSE Rat(ShortestPathCount(adjacency, fromS, s, v)
                * ShortestPathCount(adjacency, fromV, v, t),
                ShortestPathCount(adjacency, fromS, s, t))

\* the sum over the ordered pairs of other nodes, times 2 / ((n-1)(n-2))
BrandesBetweenness(adjacency, v) ==
    LET n == Cardinality(DOMAIN adjacency)
        others == DOMAIN adjacency \ {v}
        pairs == {x \in others \X others : x[1] # x[2]}
    IN RMul(SumOver([x \in pairs |-> FractionThrough(adjacency, x[1], x[2], v)], pairs),
            Rat(2, (n - 1) * (n - 2)))

\* C24: for every graph with more than two nodes, the betweenness reported
\* for a node is the sum over the ordered pairs of other nodes of the
\* fraction of their shortest paths through the node, times 2/((n-1)(n-2))
BetweennessIsBrandes ==
    q.op = "getInfluentialFiles" =>
        \A v \in DOMAIN q.ret : q.ret[v] = BrandesBetweenness(AdjacencyOf(q.files), v)

\* C25: for two disjoint triangles joined by one bridging link, community
\* detection returns exactly two communities, each the three nodes of one
\* triangle, each with cohesion 1
TwoTrianglesTwoCommunities ==
    (q.op = "findCommunities" /\ Len(q.files) = Len(TriangleNodes)) =>
        /\ Len(q.ret) = 2
        /\ {Range(q.ret[k].nodes) : k \in 1..Len(q.ret)} = {{"a", "b", "c"}, {"d", "e", "f"}}
        /\ \A k \in 1..Len(q.ret) : q.ret[k].cohesion = <<1, 1>>

\* communities were detected in two bridged triangles whose bridge ends
\* come first in the file order
BridgedTrianglesClustered ==
    /\ q.op = "findCommunities"
    /\ Len(q.files) = Len(TriangleNodes)
    /\ q.files[1].relativePath = "c"
    /\ q.files[2].relativePath = "d"
    /\ q.files[1].links = <<"d", "b", "a">>

\* C26: the path statistics, and with them analyzeGraph, come back with the
\* diameter and the mean path length for every set of files and links
PathStatisticsReturn ==
    q.op = "analyzeGraph" => ~q.ret.hangs

\* C27: search comes back with a result list for every query text, the
\* empty and the whitespace-only text included, for every threshold and
\* every set of candidate files
SearchReturns ==
    q.op = "search" => ~q.result.hangs

-----------------------------------------------------------------------------
(* updateFile calls for one file that overlap: writeFile calls              *)
(* handleFileChange itself and the watcher calls it again for the same      *)
(* write, and nothing serialises the calls.  calls[p] is one updateFile     *)
(* call: after getFileInfo ("stat"), then after readFile ("read").  A      *)
(* call is fresh while no change came after its getFileInfo; pending[f]     *)
(* holds "changed" from a change until a fresh call for it has completed.   *)
(* A change may leave the modification time of the file as it was.          *)

\* the changes in flight no longer are calls for the most recent change
Outdated(slot, f) ==
    IF slot.pc # "idle" /\ slot.file = f THEN [slot EXCEPT !.fresh = FALSE] ELSE slot

\* the file is written with content c and gets the modification time mtime
WriteFileAt(f, c, mtime) ==
    /\ q = NoQuery
    /\ c # store[f].c
    /\ store' = [store EXCEPT ![f] = [exists |-> TRUE, mtime |-> mtime, c |-> c]]
    /\ pending' = [pending EXCEPT ![f] = <<"changed">>]
    /\ calls' = [p \in Callers |-> Outdated(calls[p], f)]
    /\ UNCHANGED <<indexVars, isBuilding, q, cacheVars, handlers, parsedOnce, tagVars, searchVars>>

\* the modification times a write may leave: the one of the file, or a later one
WriteMtimes(f) ==
    {m \in Mtimes : IF store[f].exists THEN m \in {store[f].mtime, store[f].mtime + 1}
                     ELSE m = 1}

\* updateFile(f) is called and getFileInfo answers
UpdateFileStat(p, f) ==
    /\ q = NoQuery
    /\ calls[p] = Idle
    /\ store[f].exists
    /\ calls' = [calls EXCEPT ![p] = [pc |-> "stat", file |-> f, info |-> store[f],
                                      c |-> "none", fresh |-> TRUE]]
    /\ UNCHANGED <<indexVars, isBuilding, q, cacheVars, store, handlers, pending,
                   parsedOnce, tagVars, searchVars>>

\* the call has completed: a fresh one was a call for the most recent change
Completed(p, ret) ==
    /\ calls' = [calls EXCEPT ![p] = Idle]
    /\ pending' = IF calls[p].fresh THEN [pending EXCEPT ![calls[p].file] = <<>>]
                  ELSE pending
    /\ q' = [op |-> "updateFile", id |-> calls[p].file, ret |-> ret,
             fresh |-> calls[p].fresh, stored |-> calls[p].info.mtime]

\* updateFile after getFileInfo: skip, or call indexFile, which reads the file
UpdateFileDecide(p) ==
    /\ q = NoQuery
    /\ calls[p].pc = "stat"
    /\ IF NotModified(Index, calls[p].file, calls[p].info.mtime)
       THEN /\ Completed(p, "skipped")
            /\ UNCHANGED indexVars
       ELSE /\ calls' = [calls EXCEPT ![p] = [@ EXCEPT !.pc = "read",
                                                        !.c = store[calls[p].file].c]]
            /\ UNCHANGED <<indexVars, q, pending>>
    /\ UNCHANGED <<isBuilding, cacheVars, store, handlers, parsedOnce, tagVars, searchVars>>

\* indexFile parses what it read and updates the three structures
UpdateFileApply(p) ==
    /\ q = NoQuery
    /\ calls[p].pc = "read"
    /\ SetIndex(IndexFile(Index, calls[p].file, calls[p].info.mtime, calls[p].c))
    /\ Completed(p, IF ContentOf(calls[p].c).ok THEN "indexed" ELSE "failed")
    /\ UNCHANGED <<isBuilding, cacheVars, store, handlers, parsedOnce, tagVars, searchVars>>

NextUpdate ==
    \/ \E f \in NotifyDocs : \E c \in DocContents(f) : \E m \in WriteMtimes(f) :
           WriteFileAt(f, c, m)
    \/ \E p \in Callers : \E f \in NotifyDocs : UpdateFileStat(p, f)
    \/ \E p \in Callers : UpdateFileDecide(p)
    \/ \E p \in Callers : UpdateFileApply(p)
    \/ Return

SpecUpdate == InitNotify /\ [][NextUpdate]_vars

\* C28: once updateFile has completed for the most recent change to an
\* existing file, the record of the file has the content hash, the tags and
\* the links of the current content, for every timing of the changes and the
\* calls, a change that leaves the modification time as it was and
\* overlapping calls for the file included
RecordReflectsCurrentContent ==
    \A f \in NotifyDocs :
        (pending[f] = <<>> /\ store[f].exists /\ ContentOf(store[f].c).ok) =>
            /\ Has(files, f)
            /\ files[f].hash = store[f].c
            /\ files[f].tags = ContentOf(store[f].c).tags
            /\ files[f].links = ContentOf(store[f].c).links

-----------------------------------------------------------------------------
(* The Graph Analyzer over the indexed documents *)

\* getAllFiles() as the analyzer takes it: each record with its raw link targets
IndexedGraphFiles ==
    LET indexed == SelectSeqBy(DocList, DOMAIN files)
    IN [i \in 1..Len(indexed) |->
           [relativePath |-> indexed[i],
            links |-> [k \in 1..Len(files[indexed[i]].links) |->
                          files[indexed[i]].links[k].target]]]

\* the Link Index holds a link from a that resolves to b
LinkResolvesTo(a, b) ==
    \E i \in 1..Len(OutgoingOf(a)) :
        ResolveTargetPath(OutgoingOf(a)[i].target, NormalizePath(a)) = NormalizePath(b)

\* C29: the adjacency the Graph Analyzer builds has an edge between two
\* indexed documents exactly when the Link Index holds a link from one of
\* them that resolves to the other
AdjacencyFollowsLinkIndex ==
    \A a, b \in DOMAIN files :
        a # b =>
            (b \in Range(AdjacencyOf(IndexedGraphFiles)[a])
                <=> (LinkResolvesTo(a, b) \/ LinkResolvesTo(b, a)))

-----------------------------------------------------------------------------
(* An Indexer constructed with an embedding provider.  The embeddings of   *)
(* the chunks of content c are <<c>>; the provider always answers.         *)

\* buildEmbeddings(): every record without embeddings gets them
BuildEmbeddings(fs) ==
    [f \in DOMAIN fs |->
        IF fs[f].embeddings = <<>> THEN [fs[f] EXCEPT !.embeddings = <<fs[f].hash>>]
        ELSE fs[f]]

\* the documents that are updated
EmbedDocs == {DocA, DocB}

\* buildInitialIndex() at startup: the loop over the listing, then buildEmbeddings
InitialIndexWithEmbeddings(listing) ==
    /\ q = NoQuery
    /\ ~isBuilding
    /\ files = EmptyMap
    /\ LET ix == IndexListing(Index, listing, 1)
       IN SetIndex([ix EXCEPT !.files = BuildEmbeddings(ix.files)])
    /\ q' = [op |-> "buildInitialIndex", listing |-> listing]
    /\ UNCHANGED <<isBuilding, cacheVars, asyncVars, tagVars, searchVars>>

\* updateFile(f): old is the record before the call
UpdateIndexedFile(f, info) ==
    /\ q = NoQuery
    /\ SetIndex(UpdateFileResult(Index, f, info))
    /\ q' = [op |-> "updateFile", id |-> f,
             ret |-> IF ~info.exists THEN "removed"
                     ELSE IF NotModified(Index, f, info.mtime) THEN "skipped"
                     ELSE IF ContentOf(info.c).ok THEN "indexed" ELSE "failed",
             old |-> IF Has(files, f) THEN <<files[f]>> ELSE <<>>]
    /\ UNCHANGED <<isBuilding, cacheVars, asyncVars, tagVars, searchVars>>

\* getFileEmbeddings(f): the embeddings of the record, generated when it has none
GetFileEmbeddings(f) ==
    /\ q = NoQuery
    /\ IF Has(files, f)
       THEN /\ files' = [files EXCEPT ![f] =
                            IF @.embeddings = <<>>
                            THEN [@ EXCEPT !.embeddings = <<files[f].hash>>]
                            ELSE @]
            /\ q' = [op |-> "getFileEmbeddings", id |-> f, error |-> FALSE]
       ELSE /\ UNCHANGED files
            /\ q' = [op |-> "getFileEmbeddings", id |-> f, error |-> TRUE]
    /\ UNCHANGED <<tags, backlinks, fileExists, isBuilding, cacheVars, asyncVars,
                   tagVars, searchVars>>

\* setEmbeddingProvider(provider)
SetEmbeddingProvider ==
    /\ q = NoQuery
    /\ files' = BuildEmbeddings(files)
    /\ q' = [op |-> "setEmbeddingProvider"]
    /\ UNCHANGED <<tags, backlinks, fileExists, isBuilding, cacheVars, asyncVars,
                   tagVars, searchVars>>

\* semanticSearch(query, getAllFiles()): the files it does not skip, those
\* with embeddings
SemanticSearchIndexed ==
    /\ q = NoQuery
    /\ q' = [op |-> "semanticSearch",
             ret |-> {f \in DOMAIN files : files[f].embeddings # <<>>}]
    /\ UNCHANGED <<indexVars, isBuilding, cacheVars, asyncVars, tagVars, searchVars>>

NextEmbed ==
    \/ \E listing \in Listings : InitialIndexWithEmbeddings(listing)
    \/ \E f \in EmbedDocs : \E info \in FileInfos(f) : UpdateIndexedFile(f, info)
    \/ \E f \in EmbedDocs : GetFileEmbeddings(f)
    \/ SetEmbeddingProvider
    \/ SemanticSearchIndexed
    \/ Return

SpecEmbed == Init /\ [][NextEmbed]_vars

\* calls return, and semantic searches keep being made; nothing in the
\* Indexer runs on its own, and nobody has to call getFileEmbeddings or
\* setEmbeddingProvider
SpecEmbedFair ==
    SpecEmbed /\ WF_vars(Return) /\ WF_vars(SemanticSearchIndexed)

\* updateFile has just re-indexed f, which had embeddings, from a new content
ReindexedFromNewContent(f) ==
    /\ q.op = "updateFile"
    /\ q.id = f
    /\ q.ret = "indexed"
    /\ q.old # <<>>
    /\ q.old[1].embeddings # <<>>
    /\ q.old[1].hash # files[f].hash

\* C30: with an embedding provider configured, a document that updateFile
\* re-indexed after a change of its content eventually has the embeddings of
\* its new content again, with no full reindex
EmbeddingsComeBack ==
    \A f \in EmbedDocs :
        ReindexedFromNewContent(f) ~>
            (~Has(files, f) \/ files[f].embeddings = <<files[f].hash>>)

====
